---- MODULE Spec2Model ----
(***************************************************************************)
(* A model of the Coorong District Council development application        *)
(* scraper (src/scraper.ts, and the older build src/scraper.js).           *)
(*                                                                         *)
(* Texts are TLA+ strings; a character is a string of length one.  Page    *)
(* co-ordinates are integers (the decoder's units).                        *)
(***************************************************************************)
EXTENDS Integers, Sequences, FiniteSets, TLC

VARIABLES
    pc,                       \* position of parsePdf
    pageIndex,                \* parsePdf: the loop variable
    pdf,                      \* parsePdf: the document object of this iteration
    elements,                 \* parsePdf: the sorted elements of the current page
    applicationElementGroups, \* parsePdf: the sections of the current page
    groupIndex,               \* parsePdf: sections of the current page already parsed
    headingElements,          \* parsePdf: the column headings of the current page
    developmentApplications,  \* parsePdf: the records collected so far
    log,                      \* console.log lines, as reason tags
    call,                     \* a call of a function: its name and arguments
    ret,                      \* and what it returned
    database                  \* the rows of the table [data] of data.sqlite

vars == <<pc, pageIndex, pdf, elements, applicationElementGroups, groupIndex,
          headingElements, developmentApplications, log, call, ret, database>>

parseVars == <<pc, pageIndex, pdf, elements, applicationElementGroups, groupIndex,
               headingElements, developmentApplications, log>>

(***************************************************************************)
(* Strings.                                                                *)
(***************************************************************************)

Ch(s, i) == SubSeq(s, i, i)

UpperLetters == "ABCDEFGHIJKLMNOPQRSTUVWXYZ"

LowerLetters == "abcdefghijklmnopqrstuvwxyz"

Digits == {"0", "1", "2", "3", "4", "5", "6", "7", "8", "9"}

\* The characters the regular expression class \s and String.trim() take as white space.
WhiteSpace == {" ", "\t", "\n", "\r"}

IsDigit(c) == c \in Digits

UpperSet == {Ch(UpperLetters, i) : i \in 1..26}

LowerSet == {Ch(LowerLetters, i) : i \in 1..26}

LowerOf == [c \in UpperSet |-> Ch(LowerLetters, CHOOSE i \in 1..26 : Ch(UpperLetters, i) = c)]

UpperOf == [c \in LowerSet |-> Ch(UpperLetters, CHOOSE i \in 1..26 : Ch(LowerLetters, i) = c)]

LowerCh(c) == IF c \in UpperSet THEN LowerOf[c] ELSE c

UpperCh(c) == IF c \in LowerSet THEN UpperOf[c] ELSE c

\* The strings pieces[from], ..., pieces[to] put together, in that order.
RECURSIVE ConcatRange(_, _, _)
ConcatRange(pieces, from, to) ==
    IF from > to THEN ""
    ELSE IF from = to THEN pieces[from]
    ELSE ConcatRange(pieces, from, (from + to) \div 2)
             \o ConcatRange(pieces, (from + to) \div 2 + 1, to)

\* The strings of a sequence put together: what replacing each character of a
\* string by a string gives.
Concat(pieces) == ConcatRange(pieces, 1, Len(pieces))

ToLowerCase(s) == Concat([i \in 1..Len(s) |-> LowerCh(Ch(s, i))])

ToUpperCase(s) == Concat([i \in 1..Len(s) |-> UpperCh(Ch(s, i))])

\* The character at position i of s is white space (no position outside s is).
IsWhiteSpaceAt(s, i) == i >= 1 /\ i <= Len(s) /\ Ch(s, i) \in WhiteSpace

\* The number of white space characters s starts with.
LeadingWhiteSpace(s) ==
    Cardinality({i \in 1..Len(s) : \A j \in 1..i : Ch(s, j) \in WhiteSpace})

\* The number of white space characters s ends with.
TrailingWhiteSpace(s) ==
    Cardinality({i \in 1..Len(s) : \A j \in i..Len(s) : Ch(s, j) \in WhiteSpace})

TrimStart(s) == SubSeq(s, LeadingWhiteSpace(s) + 1, Len(s))

TrimEnd(s) == SubSeq(s, 1, Len(s) - TrailingWhiteSpace(s))

Trim(s) == TrimEnd(TrimStart(s))

StartsWith(s, prefix) == Len(s) >= Len(prefix) /\ SubSeq(s, 1, Len(prefix)) = prefix

\* s.substring(from): the rest of s from the 0-based index `from`.
Substring(s, from) == SubSeq(s, from + 1, Len(s))

\* s.replace(/\s/g, "")
RemoveWhiteSpace(s) ==
    Concat([i \in 1..Len(s) |-> IF Ch(s, i) \in WhiteSpace THEN "" ELSE Ch(s, i)])

\* s.replace(/\s\s+/g, " "): every run of two or more white space characters
\* becomes one space; a single white space character stays as it is.
CollapseRuns(s) ==
    Concat([i \in 1..Len(s) |->
               IF ~IsWhiteSpaceAt(s, i) THEN Ch(s, i)
               ELSE IF IsWhiteSpaceAt(s, i - 1) THEN ""
               ELSE IF IsWhiteSpaceAt(s, i + 1) THEN " "
               ELSE Ch(s, i)])

\* The number of spaces in s.
SpaceCount(s) == Cardinality({i \in 1..Len(s) : Ch(s, i) = " "})

\* The position of the k-th space of s; 0 for k = 0, and the position after the
\* end of s when s has fewer than k spaces.
SpaceAt(s, k) ==
    IF k = 0 THEN 0
    ELSE IF k > SpaceCount(s) THEN Len(s) + 1
    ELSE CHOOSE i \in 1..Len(s) :
             Ch(s, i) = " " /\ Cardinality({j \in 1..i : Ch(s, j) = " "}) = k

\* s.split(" "): the pieces between single spaces; two adjacent spaces give an
\* empty piece.
Split(s) ==
    [k \in 1..(SpaceCount(s) + 1) |-> SubSeq(s, SpaceAt(s, k - 1) + 1, SpaceAt(s, k) - 1)]

\* tokens.join(sep)
Join(tokens, sep) ==
    Concat([i \in 1..Len(tokens) |-> IF i = 1 THEN tokens[i] ELSE sep \o tokens[i]])

\* tokens.slice(-n): the last n tokens, or all of them when there are fewer.
SliceLast(tokens, n) ==
    IF n >= Len(tokens) THEN tokens ELSE SubSeq(tokens, Len(tokens) - n + 1, Len(tokens))

\* What tokens.splice(-n, n) leaves in tokens.
SpliceLast(tokens, n) ==
    IF n >= Len(tokens) THEN <<>> ELSE SubSeq(tokens, 1, Len(tokens) - n)

Min2(a, b) == IF a <= b THEN a ELSE b

Max2(a, b) == IF a >= b THEN a ELSE b

(***************************************************************************)
(* The fuzzy matcher didYouMean (didyoumean2) as the scraper calls it:     *)
(* caseSensitive false, trimSpaces true, EDIT_DISTANCE threshold,          *)
(* FIRST_CLOSEST_MATCH.                                                    *)
(***************************************************************************)

\* The entries from..to of a row of the edit distance table, from the least cost
\* of reaching each entry from the row above (above) and the entry before them
\* (before): an entry is reached from the row above or from the entry before it.
RECURSIVE LevScan(_, _, _, _)
LevScanRest(left, above, from, to) ==
    left \o LevScan(above, from, to, left[Len(left)])

LevScan(above, from, to, before) ==
    IF from = to THEN << Min2(above[from], before + 1) >>
    ELSE LevScanRest(LevScan(above, from, (from + to) \div 2, before),
                     above, (from + to) \div 2 + 1, to)

\* The row of the edit distance table after prev: entry i + 1 is the distance
\* between the first i characters of a and the first k characters of b, of
\* which c is the last.
LevNextRow(prev, a, c, k) ==
    LevScan([i \in 1..(Len(a) + 1) |->
                IF i = 1 THEN k
                ELSE Min2(prev[i] + 1, prev[i - 1] + (IF Ch(a, i - 1) = c THEN 0 ELSE 1))],
            1, Len(a) + 1, k)

\* The last row of the edit distance table of a and b, from the row prev; the
\* first entry of a row is the number of characters of b it stands for.
RECURSIVE LevRows(_, _, _)
LevRows(prev, a, b) ==
    IF prev[1] >= Len(b) THEN prev
    ELSE LevRows(LevNextRow(prev, a, Ch(b, prev[1] + 1), prev[1] + 1), a, b)

\* The Levenshtein distance of two strings.
Levenshtein(a, b) == LevRows([i \in 1..(Len(a) + 1) |-> i - 1], a, b)[Len(a) + 1]

\* trimSpaces: leading and trailing white space goes, inner runs become one space.
CollapseSpaces(s) ==
    Concat([i \in 1..Len(s) |->
               IF ~IsWhiteSpaceAt(s, i) THEN Ch(s, i)
               ELSE IF IsWhiteSpaceAt(s, i - 1) THEN ""
               ELSE " "])

NormalizeString(s) == CollapseSpaces(Trim(ToLowerCase(s)))

EditDistance(input, candidate) ==
    Levenshtein(NormalizeString(input), NormalizeString(candidate))

\* The index in matchList of the match didYouMean returns, 0 for null: the first
\* of the candidates at the least edit distance, if that is within the threshold.
ClosestWithin(score, threshold) ==
    IF \A i \in 1..Len(score) : score[i] > threshold THEN 0
    ELSE CHOOSE i \in 1..Len(score) :
             /\ score[i] <= threshold
             /\ \A j \in 1..Len(score) :
                    score[i] < score[j] \/ (score[i] = score[j] /\ i <= j)

DidYouMeanIndex(input, matchList, threshold) ==
    ClosestWithin([i \in 1..Len(matchList) |-> EditDistance(input, matchList[i])], threshold)

(***************************************************************************)
(* Rectangles and elements.  An element is a record [text, x, y, width,    *)
(* height].  Page co-ordinates are even whole numbers, so that half a      *)
(* height is a whole number too.  A percentage is kept as the fraction     *)
(* num / den, and compared without rounding.                               *)
(***************************************************************************)

\* The value undefined.
Undefined == [undefined |-> TRUE]

\* Stands for Number.MAX_VALUE: above every co-ordinate and distance of a page.
NumberMaxValue == 1000000000

\* Stands for Infinity (the distance to the placeholder element of getRightElement).
Infinity == NumberMaxValue + 1

\* percentage > n
GreaterThan(percentage, n) ==
    IF percentage.den = 0 THEN percentage.num > 0      \* Infinity > n; NaN > n is false
    ELSE percentage.num > n * percentage.den

getArea(rectangle) == rectangle.width * rectangle.height

\* intersect with the left edge of the first rectangle for that of the result.
intersectFromFirst(rectangle1, rectangle2) ==
    LET x1 == rectangle1.x
        y1 == Max2(rectangle1.y, rectangle2.y)
        x2 == Min2(rectangle1.x + rectangle1.width, rectangle2.x + rectangle2.width)
        y2 == Min2(rectangle1.y + rectangle1.height, rectangle2.y + rectangle2.height)
    IN  IF x2 >= x1 /\ y2 >= y1
        THEN [x |-> x1, y |-> y1, width |-> x2 - x1, height |-> y2 - y1]
        ELSE [x |-> 0, y |-> 0, width |-> 0, height |-> 0]

intersect(rectangle1, rectangle2) ==
    LET x1 == Max2(rectangle1.x, rectangle2.x)
        y1 == Max2(rectangle1.y, rectangle2.y)
        x2 == Min2(rectangle1.x + rectangle1.width, rectangle2.x + rectangle2.width)
        y2 == Min2(rectangle1.y + rectangle1.height, rectangle2.y + rectangle2.height)
    IN  IF x2 >= x1 /\ y2 >= y1
        THEN [x |-> x1, y |-> y1, width |-> x2 - x1, height |-> y2 - y1]
        ELSE [x |-> 0, y |-> 0, width |-> 0, height |-> 0]

\* getPercentageOfElementInRectangle without the test of elementArea === 0.
getPercentageUnguarded(element, rectangle) ==
    [num |-> getArea(intersect(rectangle, element)) * 100, den |-> getArea(element)]

getPercentageOfElementInRectangle(element, rectangle) ==
    LET elementArea == getArea(element)
        intersectionArea == getArea(intersect(rectangle, element))
    IN  IF elementArea = 0 THEN [num |-> 0, den |-> 1]
        ELSE [num |-> intersectionArea * 100, den |-> elementArea]

\* The vertical overlap as a percentage of the height of the first element.
getVerticalOverlapPercentageOfFirst(element1, element2) ==
    LET y1 == Max2(element1.y, element2.y)
        y2 == Min2(element1.y + element1.height, element2.y + element2.height)
    IN  IF y2 < y1 THEN [num |-> 0, den |-> 1]
        ELSE [num |-> (y2 - y1) * 100, den |-> element1.height]

getVerticalOverlapPercentage(element1, element2) ==
    LET y1 == Max2(element1.y, element2.y)
        y2 == Min2(element1.y + element1.height, element2.y + element2.height)
    IN  IF y2 < y1 THEN [num |-> 0, den |-> 1]
        ELSE [num |-> (y2 - y1) * 100, den |-> element2.height]

isVerticalOverlap(element1, element2) ==
    /\ element2.y < element1.y + element1.height
    /\ element2.y + element2.height > element1.y

\* The least number of a set of numbers.
Least(numbers) == CHOOSE n \in numbers : \A other \in numbers : n <= other

\* getRowTop: the loop leaves in top the least of startElement.y and the y of the
\* elements that overlap startElement vertically by more than half.
getRowTop(rowElements, startElement) ==
    Least({startElement.y} \cup
          {rowElements[i].y : i \in
               {i \in 1..Len(rowElements) :
                    /\ rowElements[i].y < startElement.y + startElement.height
                    /\ rowElements[i].y + rowElements[i].height > startElement.y
                    /\ GreaterThan(getVerticalOverlapPercentage(startElement,
                                                               rowElements[i]), 50)}})

\* Four times the square of the distance from the middle of the right edge of
\* element1 to the middle of the left edge of element2 (four times, so that the
\* half heights stay whole numbers).
calculateDistance(element1, element2) ==
    IF element2 = Undefined THEN Infinity
    ELSE LET dx  == element2.x - (element1.x + element1.width)
             dy2 == (2 * element2.y + element2.height) - (2 * element1.y + element1.height)
         IN  IF 5 * element2.x < 5 * (element1.x + element1.width) - element1.width
             THEN NumberMaxValue
             ELSE 4 * dx * dx + dy2 * dy2

\* The elements to the right of element on its row and closer than the
\* placeholder, whatever the gap.
RightElementsAnyGap(pageElements, element) ==
    {i \in 1..Len(pageElements) :
         /\ isVerticalOverlap(element, pageElements[i])
         /\ GreaterThan(getVerticalOverlapPercentage(element, pageElements[i]), 50)
         /\ pageElements[i].x > element.x + element.width
         /\ calculateDistance(element, pageElements[i])
                < calculateDistance(element, Undefined)}

\* The elements the loop of getRightElement may take as closestElement: those to
\* the right of element on its row, after a gap of less than 30, and closer
\* than the placeholder the loop starts with.
RightElements(pageElements, element) ==
    {i \in 1..Len(pageElements) :
         /\ isVerticalOverlap(element, pageElements[i])
         /\ GreaterThan(getVerticalOverlapPercentage(element, pageElements[i]), 50)
         /\ pageElements[i].x > element.x + element.width
         /\ pageElements[i].x - (element.x + element.width) < 30
         /\ calculateDistance(element, pageElements[i])
                < calculateDistance(element, Undefined)}

\* The element the loop of getRightElement ends with: the first of the closest
\* of the candidates, Undefined when there is none.
ClosestElement(pageElements, element, candidates) ==
    IF candidates = {} THEN Undefined
    ELSE pageElements[CHOOSE i \in candidates : \A j \in candidates :
             \/ calculateDistance(element, pageElements[i])
                    < calculateDistance(element, pageElements[j])
             \/ /\ calculateDistance(element, pageElements[i])
                       = calculateDistance(element, pageElements[j])
                /\ i <= j]

getRightElement(pageElements, element) ==
    ClosestElement(pageElements, element, RightElements(pageElements, element))

(***************************************************************************)
(* Sorting, as Array.prototype.sort with a comparer (a stable sort).       *)
(***************************************************************************)

\* comparer(a, b) <= 0: a does not come after b, for elementComparer (by y and
\* then by x, thenByX) and for yComparer (by y alone).
NotAfter(a, b, thenByX) == a.y < b.y \/ (a.y = b.y /\ (~thenByX \/ a.x <= b.x))

\* The number of elements of s that a stable sort puts before s[i]: the earlier
\* ones that do not come after it and the later ones that come before it.
Rank(s, i, thenByX) ==
    Cardinality({j \in 1..Len(s) :
                     \/ j < i /\ NotAfter(s[j], s[i], thenByX)
                     \/ j > i /\ ~NotAfter(s[i], s[j], thenByX)})

\* Array.prototype.sort: the elements of s in the order of their ranks.
Sorted(s, thenByX) ==
    SubSeq([r \in 1..Len(s) |-> s[CHOOSE i \in 1..Len(s) : Rank(s, i, thenByX) = r - 1]],
           1, Len(s))

\* elements.sort(elementComparer)
SortElements(s) == Sorted(s, TRUE)

\* The start elements as they were pushed, not sorted.
Unsorted(s) == s

\* startElements.sort(yComparer)
SortByY(s) == Sorted(s, FALSE)

\* elements.find(element => element.text.toLowerCase().replace(/\s/g, "") === name),
\* Undefined when there is none.
FindHeading(s, name) ==
    IF \A i \in 1..Len(s) : RemoveWhiteSpace(ToLowerCase(s[i].text)) # name THEN Undefined
    ELSE s[CHOOSE i \in 1..Len(s) :
               /\ RemoveWhiteSpace(ToLowerCase(s[i].text)) = name
               /\ \A j \in 1..(i - 1) : RemoveWhiteSpace(ToLowerCase(s[j].text)) # name]

\* elements.map(element => element.text)
Texts(s) == [i \in 1..Len(s) |-> s[i].text]

(***************************************************************************)
(* findStartElements.                                                      *)
(***************************************************************************)

\* s.replace(/[\s,\-_]/g, "")
RemoveSeparators(s) ==
    Concat([i \in 1..Len(s) |->
               IF Ch(s, i) \in WhiteSpace \cup {",", "-", "_"} THEN "" ELSE Ch(s, i)])

\* didYouMean(text, [ "Approval:" ], { ... threshold }) !== null
MatchesApproval(text, threshold) == DidYouMeanIndex(text, <<"Approval:">>, threshold) # 0

\* The threshold of the match pushed for the joined text, NoMatch when none is.
NoMatch == -1

MatchThreshold(text) ==
    IF text = "approval:" THEN 0
    ELSE IF MatchesApproval(text, 1) THEN 1
    ELSE IF MatchesApproval(text, 2) THEN 2
    ELSE NoMatch

\* matches after the push, if any, for rightElement and the joined text.
PushMatch(matches, rightElement, text, threshold) ==
    IF Len(text) < 9 \/ threshold = NoMatch THEN matches
    ELSE Append(matches, [element |-> rightElement, threshold |-> threshold, text |-> text])

\* The do ... while loop of findStartElements: the matches found from rightElement
\* on, rightElements being the elements joined before it.
RECURSIVE StartMatches(_, _, _, _)
NextStartMatches(pageElements, rightElement, rightElements, matches) ==
    IF rightElement # Undefined /\ Len(rightElements) < 3
    THEN StartMatches(pageElements, rightElement, rightElements, matches)
    ELSE matches

\* The loop stops at a joined text of 12 characters or more, not of 11.
JoinedStartMatchesLonger(pageElements, rightElement, rightElements, matches, text) ==
    IF Len(text) >= 12 THEN matches
    ELSE NextStartMatches(pageElements, getRightElement(pageElements, rightElement),
                          rightElements,
                          PushMatch(matches, rightElement, text, MatchThreshold(text)))

JoinedStartMatches(pageElements, rightElement, rightElements, matches, text) ==
    IF Len(text) >= 11 THEN matches
    ELSE NextStartMatches(pageElements, getRightElement(pageElements, rightElement),
                          rightElements,
                          PushMatch(matches, rightElement, text, MatchThreshold(text)))

StartMatches(pageElements, rightElement, rightElements, matches) ==
    JoinedStartMatches(pageElements, rightElement, Append(rightElements, rightElement),
                       matches,
                       ToLowerCase(RemoveSeparators(
                           Join(Texts(Append(rightElements, rightElement)), ""))))

Abs(n) == IF n < 0 THEN -n ELSE n

\* Every match is taken for the best so far: the last match is the best.
LaterMatch(current, previous) == TRUE

\* current is a better match than previous, in the reduce of findStartElements.
BetterMatch(current, previous) ==
    \/ previous = Undefined
    \/ current.threshold < previous.threshold
    \/ /\ current.threshold = previous.threshold
       /\ Abs(Len(Trim(current.text)) - Len("Approval:"))
              < Abs(Len(Trim(previous.text)) - Len("Approval:"))

\* matches.reduce(...): the best of the matches from matches[i] on, previous being
\* the best before them.
RECURSIVE BestMatch(_, _, _)
BestMatch(matches, i, previous) ==
    IF i > Len(matches) THEN previous
    ELSE BestMatch(matches, i + 1,
                   IF BetterMatch(matches[i], previous) THEN matches[i] ELSE previous)

\* The start element an element that starts with "a" gives: the element of the
\* best of its matches, Undefined when it has no match.
StartElementOf(matches) ==
    IF Len(matches) > 0 THEN BestMatch(matches, 1, Undefined).element ELSE Undefined

\* The loop of findStartElements: the start elements in the order of the
\* elements that start with "a".
StartElementsOf(pageElements, candidates) ==
    SelectSeq(SubSeq([i \in 1..Len(candidates) |->
                         StartElementOf(StartMatches(pageElements, candidates[i],
                                                     <<>>, <<>>))],
                     1, Len(candidates)),
              LAMBDA startElement : startElement # Undefined)

findStartElements(pageElements) ==
    SortByY(StartElementsOf(pageElements,
                SelectSeq(pageElements, LAMBDA element :
                    StartsWith(ToLowerCase(Trim(element.text)), "a"))))

(***************************************************************************)
(* The suburb dictionary (suburbnames.txt, upper-cased as main loads it):  *)
(* in the order of the file, each suburb name with its canonical           *)
(* "SUBURB STATE POSTCODE" string.                                         *)
(***************************************************************************)

SuburbNames ==
    << [name |-> "MENINGIE",    value |-> "MENINGIE SA 5264"],
       [name |-> "TAILEM BEND", value |-> "TAILEM BEND SA 5260"],
       [name |-> "KI KI",       value |-> "KI KI SA 5261"],
       [name |-> "PEAKE",       value |-> "PEAKE SA 5301"] >>

\* Object.keys(SuburbNames)
SuburbKeys == [i \in 1..Len(SuburbNames) |-> SuburbNames[i].name]

\* The edit distance didYouMean allows between a window and a suburb name.
SuburbThreshold == 2

\* The largest window of trailing tokens formatAddress tests.
MaxSuburbTokens == 4

(***************************************************************************)
(* formatAddress (src/scraper.ts).                                         *)
(***************************************************************************)

\* SuburbWindow with didYouMean allowed an edit distance of 1 only.
RECURSIVE SuburbWindowDistanceOne(_, _)
SuburbWindowDistanceOne(tokens, index) ==
    IF index > MaxSuburbTokens THEN [index |-> 0, match |-> 0]
    ELSE LET suburbNameMatch ==
                 DidYouMeanIndex(Join(SliceLast(tokens, index), " "), SuburbKeys, 1)
         IN  IF suburbNameMatch # 0
             THEN [index |-> index, match |-> suburbNameMatch]
             ELSE SuburbWindowDistanceOne(tokens, index + 1)

\* The loop of formatAddress over index = 1, 2, ...: the first window of trailing
\* tokens that didYouMean matches to a suburb name (index) and the suburb it
\* matched (match, an index of SuburbNames); index 0 when no window matched.
RECURSIVE SuburbWindow(_, _)
SuburbWindow(tokens, index) ==
    IF index > MaxSuburbTokens THEN [index |-> 0, match |-> 0]
    ELSE LET suburbNameMatch ==
                 DidYouMeanIndex(Join(SliceLast(tokens, index), " "), SuburbKeys,
                                 SuburbThreshold)
         IN  IF suburbNameMatch # 0
             THEN [index |-> index, match |-> suburbNameMatch]
             ELSE SuburbWindow(tokens, index + 1)

\* /^\d,\d\d\d/.test(address)
HasThousandsComma(address) ==
    /\ Len(address) >= 5
    /\ IsDigit(Ch(address, 1))
    /\ Ch(address, 2) = ","
    /\ IsDigit(Ch(address, 3)) /\ IsDigit(Ch(address, 4)) /\ IsDigit(Ch(address, 5))

\* address.substring(0, 1) + address.substring(2)
RemoveComma(address) ==
    IF HasThousandsComma(address) THEN SubSeq(address, 1, 1) \o Substring(address, 2)
    ELSE address

\* formatAddressCall falling back to the address as written when no suburb is
\* recognised.
formatAddressCallFallback(address) ==
    LET trimmed == Trim(address)
    IN  IF trimmed = "" \/ StartsWith(trimmed, "LOT:")
        THEN [value |-> "", log |-> <<>>]
        ELSE LET tokens == Split(trimmed)
                 found  == SuburbWindow(tokens, 1)
             IN  IF found.index = 0
                 THEN [value |-> trimmed, log |-> <<>>]
                 ELSE LET suburbName == SuburbNames[found.match].value
                          streetName == Trim(Join(SpliceLast(tokens, found.index), " "))
                          joined == Trim(streetName
                                         \o (IF streetName = "" THEN "" ELSE ", ")
                                         \o suburbName)
                      IN  [value |-> RemoveComma(joined), log |-> <<>>]

\* A call of formatAddress: the string it returns (value) and the lines it logs.
formatAddressCall(address) ==
    LET trimmed == Trim(address)
    IN  IF trimmed = "" \/ StartsWith(trimmed, "LOT:")
        THEN [value |-> "", log |-> <<>>]
        ELSE LET tokens == Split(trimmed)
                 found  == SuburbWindow(tokens, 1)
             IN  IF found.index = 0
                 THEN [value |-> "",
                       log |-> << [msg |-> "SuburbNotRecognised", detail |-> trimmed] >>]
                 ELSE LET suburbName == SuburbNames[found.match].value
                          streetName == Trim(Join(SpliceLast(tokens, found.index), " "))
                          joined == Trim(streetName
                                         \o (IF streetName = "" THEN "" ELSE ", ")
                                         \o suburbName)
                      IN  [value |-> RemoveComma(joined), log |-> <<>>]

formatAddress(address) == formatAddressCall(address).value

(***************************************************************************)
(* formatAddress of the older build (src/scraper.js): no dictionaries.     *)
(***************************************************************************)

formatAddressJs(address) == RemoveComma(Trim(address))


(***************************************************************************)
(* moment(text, "D/MM/YYYY", true): strict parsing of a day of one or two  *)
(* digits, a month of two digits and a year of four digits.                *)
(***************************************************************************)

DigitValue(c) == CHOOSE n \in 0..9 : Ch("0123456789", n + 1) = c

RECURSIVE ToNumber(_)
ToNumber(s) == IF s = "" THEN 0 ELSE 10 * ToNumber(SubSeq(s, 1, Len(s) - 1)) + DigitValue(Ch(s, Len(s)))

AllDigits(s) == \A i \in 1..Len(s) : IsDigit(Ch(s, i))

IsLeapYear(year) == year % 4 = 0 /\ (year % 100 # 0 \/ year % 400 = 0)

DaysInMonth(year, month) ==
    IF month = 2 THEN (IF IsLeapYear(year) THEN 29 ELSE 28)
    ELSE IF month \in {4, 6, 9, 11} THEN 30 ELSE 31

\* The parts [day, month, year] (strings) of a text of the form D/MM/YYYY or
\* DD/MM/YYYY, Undefined for any other text.
DateParts(text) ==
    LET n == Len(text)
        d == n - 8          \* the digits of the day
    IN  IF /\ n \in {9, 10}
           /\ AllDigits(SubSeq(text, 1, d))
           /\ Ch(text, d + 1) = "/"
           /\ AllDigits(SubSeq(text, d + 2, d + 3))
           /\ Ch(text, d + 4) = "/"
           /\ AllDigits(SubSeq(text, d + 5, d + 8))
        THEN [day |-> SubSeq(text, 1, d), month |-> SubSeq(text, d + 2, d + 3),
              year |-> SubSeq(text, d + 5, d + 8)]
        ELSE Undefined

\* The day of the month is one of the month, for parts of digits.
ValidParts(day, month, year) ==
    /\ month \in 1..12
    /\ day >= 1
    /\ day <= DaysInMonth(year, month)

ValidDateParts(parts) ==
    ValidParts(ToNumber(parts.day), ToNumber(parts.month), ToNumber(parts.year))

\* receivedDate.isValid()
IsValidDate(text) == DateParts(text) # Undefined /\ ValidDateParts(DateParts(text))

FormatDateParts(parts) ==
    parts.year \o "-" \o parts.month \o "-"
        \o (IF Len(parts.day) = 1 THEN "0" ELSE "") \o parts.day

\* receivedDate.format("YYYY-MM-DD") of a valid date
FormatDate(text) == FormatDateParts(DateParts(text))

(***************************************************************************)
(* parseApplicationElements (src/scraper.ts).                              *)
(***************************************************************************)

CommentUrl == "mailto:council@coorong.sa.gov.au"

\* moment().format("YYYY-MM-DD"): the day of the run.
ScrapeDate == "2019-02-25"

\* elements.reduce(...): the first of the elements with the least x.
LeftmostElement(s) ==
    IF s = <<>> THEN Undefined
    ELSE s[CHOOSE i \in 1..Len(s) :
               /\ \A j \in 1..Len(s) : s[i].x <= s[j].x
               /\ \A j \in 1..(i - 1) : s[j].x > s[i].x]

\* The first of the elements with the least y.
TopmostElement(s) ==
    IF s = <<>> THEN Undefined
    ELSE s[CHOOSE i \in 1..Len(s) :
               /\ \A j \in 1..Len(s) : s[i].y <= s[j].y
               /\ \A j \in 1..(i - 1) : s[j].y > s[i].y]

\* The last of the elements with the greatest y.
BottommostElement(s) ==
    IF s = <<>> THEN Undefined
    ELSE s[CHOOSE i \in 1..Len(s) :
               /\ \A j \in 1..Len(s) : s[i].y >= s[j].y
               /\ \A j \in (i + 1)..Len(s) : s[j].y < s[i].y]

\* elements.filter(element => getPercentageOfElementInRectangle(element, bounds) > 10)
ElementsIn(s, bounds) ==
    SelectSeq(s, LAMBDA element :
                     GreaterThan(getPercentageOfElementInRectangle(element, bounds), 10))

\* elements.map(element => `[${element.text}]`).join("")
ElementSummary(s) == Concat([i \in 1..Len(s) |-> "[" \o s[i].text \o "]"])

\* s.replace(/[Il,]/g, "/")
ReplaceIl(s) ==
    Concat([i \in 1..Len(s) |-> IF Ch(s, i) \in {"I", "l", ","} THEN "/" ELSE Ch(s, i)])

\* The length of the match of /^\d\d?\/\d\d\/\d\d\d\d / in s, 0 when there is none.
LodgedDatePrefix(s) ==
    IF Len(s) >= 11 /\ DateParts(SubSeq(s, 1, 10)) # Undefined /\ Ch(s, 11) = " " THEN 11
    ELSE IF Len(s) >= 10 /\ DateParts(SubSeq(s, 1, 9)) # Undefined /\ Ch(s, 10) = " " THEN 10
    ELSE 0

\* s.replace(/^\d\d?\/\d\d\/\d\d\d\d /, "")
RemoveLodgedDate(s) == Substring(s, LodgedDatePrefix(s))

IsDotAt(s, i) == i >= 1 /\ i <= Len(s) /\ Ch(s, i) = "."

\* s[i] is in a run of three or more dots.
InDots(s, i) ==
    \E from \in (i - 2)..i : IsDotAt(s, from) /\ IsDotAt(s, from + 1) /\ IsDotAt(s, from + 2)

\* s.replace(/\.{3,}/g, " "): a run of three or more dots gives one space, at its
\* first dot.
ReplaceDots(s) ==
    Concat([i \in 1..Len(s) |->
               IF ~InDots(s, i) THEN Ch(s, i)
               ELSE IF IsDotAt(s, i - 1) THEN "" ELSE " "])

\* addressRows.find(row => Math.abs(row[0].y - addressElement.y) < 5): the index
\* of the row found, 0 when there is none.
FindAddressRow(addressRows, addressElement) ==
    IF \A r \in 1..Len(addressRows) : Abs(addressRows[r][1].y - addressElement.y) >= 5 THEN 0
    ELSE CHOOSE r \in 1..Len(addressRows) :
             /\ Abs(addressRows[r][1].y - addressElement.y) < 5
             /\ \A q \in 1..(r - 1) : Abs(addressRows[q][1].y - addressElement.y) >= 5

\* addressRows after addressElement started a new row or joined the row r.
PushAddressElement(addressRows, addressElement, r) ==
    IF r = 0 THEN Append(addressRows, <<addressElement>>)
    ELSE [addressRows EXCEPT ![r] = Append(@, addressElement)]

\* The loop that groups the address elements into rows, from addressElements[i] on.
RECURSIVE AddressRows(_, _, _)
AddressRows(addressElements, i, addressRows) ==
    IF i > Len(addressElements) THEN addressRows
    ELSE AddressRows(addressElements, i + 1,
                     PushAddressElement(addressRows, addressElements[i],
                                        FindAddressRow(addressRows, addressElements[i])))

\* row.map(element => element.text).join("").trim().replace(/\s\s+/g, " ")
RowText(row) == CollapseRuns(Trim(Join(Texts(row), "")))

\* The test of the application number: the section is ignored when it holds.
ApplicationNumberNotFound(applicationNumber) == applicationNumber = ""

\* The test of the formatted address with no section ever ignored for it.
AddressNotFoundNever(address) == FALSE

\* The test of the formatted address: the section is ignored when it holds.
AddressNotFound(address) == address = ""

\* The line of an ignored section logged as a line of a found application.
IgnoredLineAsFound(reason, elementSummary) == [msg |-> "Found", detail |-> elementSummary]

\* The line logged when a section is ignored: the reason and the texts of the
\* elements of the section.
IgnoredLine(reason, elementSummary) == [msg |-> reason, detail |-> elementSummary]

\* What a call of parseApplicationElements does: it throws a TypeError (kind
\* "throw"), returns undefined (kind "undefined") or returns a development
\* application (kind "application", in value); log holds the lines it logged.
Thrown(lines) == [kind |-> "throw", value |-> Undefined, log |-> lines]

Ignored(lines) == [kind |-> "undefined", value |-> Undefined, log |-> lines]

Parsed(developmentApplication, lines) ==
    [kind |-> "application", value |-> developmentApplication, log |-> lines]

\* console.log(`    Found "${applicationNumber}".`)
FoundLine(applicationNumber) == [msg |-> "Found", detail |-> applicationNumber]

\* The texts of the elements that are more than 10% within the bounds.
TextsIn(s, bounds) == Texts(ElementsIn(s, bounds))

\* The object parseApplicationElements returns, with the description as extracted.
DevelopmentApplicationAsExtracted(applicationNumber, address, description, informationUrl, receivedDate, legalDescription) ==
    [applicationNumber |-> applicationNumber,
     address |-> address,
     description |-> description,
     informationUrl |-> informationUrl,
     commentUrl |-> CommentUrl,
     scrapeDate |-> ScrapeDate,
     receivedDate |-> IF IsValidDate(receivedDate) THEN FormatDate(receivedDate) ELSE "",
     legalDescription |-> legalDescription]

\* The object parseApplicationElements returns.
DevelopmentApplication(applicationNumber, address, description, informationUrl, receivedDate, legalDescription) ==
    [applicationNumber |-> applicationNumber,
     address |-> address,
     description |-> IF Trim(description) # "" THEN description
                     ELSE "No Description Provided",
     informationUrl |-> informationUrl,
     commentUrl |-> CommentUrl,
     scrapeDate |-> ScrapeDate,
     receivedDate |-> IF IsValidDate(receivedDate) THEN FormatDate(receivedDate) ELSE "",
     legalDescription |-> legalDescription]

DescriptionBounds(headings, topmostElement, bottommostElement) ==
    [x |-> headings.proposal.x, y |-> topmostElement.y,
     width |-> headings.approval.x - headings.proposal.x,
     height |-> (IF headings.conditions = Undefined THEN bottommostElement.y
                 ELSE headings.conditions.y) - topmostElement.y]

\* ....join(" ").replace(/\.{3,}/g, " ").trim().replace(/\s\s+/g, " ")
Description(sorted, descriptionBounds) ==
    CollapseRuns(Trim(ReplaceDots(Join(TextsIn(sorted, descriptionBounds), " "))))

\* parseApplicationElements from the test of the formatted address on.
ParseDescription(sorted, topmostElement, bottommostElement, headings, informationUrl, applicationNumber, receivedDate, legalDescription, formatted) ==
    IF AddressNotFound(formatted.value)
    THEN Ignored(<< FoundLine(applicationNumber) >> \o formatted.log
                     \o << IgnoredLine("NoAddress", ElementSummary(sorted)) >>)
    ELSE IF headings.proposal = Undefined
    THEN Thrown(<< FoundLine(applicationNumber) >> \o formatted.log)
    ELSE Parsed(DevelopmentApplication(
                    applicationNumber, formatted.value,
                    Description(sorted, DescriptionBounds(headings, topmostElement,
                                                          bottommostElement)),
                    informationUrl, receivedDate, legalDescription),
                << FoundLine(applicationNumber) >> \o formatted.log)

\* The address and the legal description are never swapped.
NeverSwapped(address, legalDescription) == FALSE

\* address.trim().startsWith("LOT:") && legalDescription !== ""
IsSwapped(address, legalDescription) ==
    StartsWith(Trim(address), "LOT:") /\ legalDescription # ""

\* parseApplicationElements from the swap of the address and the legal
\* description on.
ParseSwapped(sorted, topmostElement, bottommostElement, headings, informationUrl, applicationNumber, receivedDate, address, legalDescription) ==
    ParseDescription(sorted, topmostElement, bottommostElement, headings, informationUrl,
                     applicationNumber, receivedDate,
                     IF IsSwapped(address, legalDescription) THEN address
                     ELSE legalDescription,
                     formatAddressCall(IF IsSwapped(address, legalDescription)
                                       THEN legalDescription ELSE address))

\* The text of the row r of the address, "" when there are fewer rows.
AddressRowText(addressRows, r) ==
    IF Len(addressRows) < r THEN "" ELSE RowText(addressRows[r])

\* parseApplicationElements from the texts of the rows of the address on.
ParseAddressRows(sorted, topmostElement, bottommostElement, headings, informationUrl, applicationNumber, receivedDate, addressRows) ==
    ParseSwapped(sorted, topmostElement, bottommostElement, headings, informationUrl,
                 applicationNumber, receivedDate,
                 RemoveLodgedDate(AddressRowText(addressRows, 1)),
                 AddressRowText(addressRows, 2))

ReceivedDateBounds(headings, leftmostElement, topmostElement) ==
    [x |-> headings.lodged.x, y |-> topmostElement.y,
     width |-> headings.lodged.width, height |-> leftmostElement.height * 2]

\* receivedDateText.trim().replace(/\s/g, ""), the whole of the text.
ReceivedDateWhole(trimmed) == RemoveWhiteSpace(trimmed)

\* receivedDateText.trim().substring(0, "DD/MM/YYYY".length).replace(/\s/g, "")
ReceivedDate(trimmed) ==
    RemoveWhiteSpace(SubSeq(trimmed, 1,
                            Min2(Len("DD/MM/YYYY"), Len(trimmed))))

AddressBounds(headings, leftmostElement, topmostElement) ==
    [x |-> headings.subjectLand.x, y |-> topmostElement.y,
     width |-> headings.estimated.x - headings.subjectLand.x,
     height |-> leftmostElement.height * 3]

\* parseApplicationElements from the line logged for the application number on.
ParseReceivedDate(sorted, leftmostElement, topmostElement, bottommostElement, headings, informationUrl, applicationNumber) ==
    IF headings.lodged = Undefined \/ headings.subjectLand = Undefined
           \/ headings.estimated = Undefined
    THEN Thrown(<< FoundLine(applicationNumber) >>)
    ELSE ParseAddressRows(
             sorted, topmostElement, bottommostElement, headings, informationUrl,
             applicationNumber,
             ReceivedDate(Trim(Join(TextsIn(sorted,
                 ReceivedDateBounds(headings, leftmostElement, topmostElement)), ""))),
             AddressRows(ElementsIn(sorted,
                 AddressBounds(headings, leftmostElement, topmostElement)), 1, <<>>))

\* parseApplicationElements from the test of the application number on.
ParseApplicationNumber(sorted, leftmostElement, topmostElement, bottommostElement, headings, informationUrl, applicationNumber) ==
    IF ApplicationNumberNotFound(applicationNumber)
    THEN Ignored(<< IgnoredLine("NoApplicationNumber", ElementSummary(sorted)) >>)
    ELSE ParseReceivedDate(sorted, leftmostElement, topmostElement, bottommostElement,
                           headings, informationUrl, ReplaceIl(applicationNumber))

ApplicationNumberBounds(headings, leftmostElement, topmostElement) ==
    [x |-> leftmostElement.x, y |-> topmostElement.y,
     width |-> headings.document.width, height |-> leftmostElement.height * 2]

\* parseApplicationElements from the sort of the elements on.
ParseSorted(sorted, leftmostElement, topmostElement, bottommostElement, headings, informationUrl) ==
    IF leftmostElement = Undefined \/ headings.document = Undefined
    THEN Thrown(<<>>)
    ELSE ParseApplicationNumber(
             sorted, leftmostElement, topmostElement, bottommostElement, headings,
             informationUrl,
             RemoveWhiteSpace(Join(TextsIn(sorted,
                 ApplicationNumberBounds(headings, leftmostElement, topmostElement)), "")))

parseApplicationElements(sectionElements, headings, informationUrl) ==
    ParseSorted(SortElements(sectionElements), LeftmostElement(sectionElements),
                TopmostElement(sectionElements), BottommostElement(sectionElements),
                headings, informationUrl)

(***************************************************************************)
(* parsePdf (src/scraper.ts): the pages of a document.                     *)
(***************************************************************************)

\* The most pages a document of the model has.
MaxPages == 2

\* The limit of the page loop.
PageLimit == 5000

Url == "https://www.coorong.sa.gov.au/register.pdf"

Element(text, x, y, width, height) ==
    [text |-> text, x |-> x, y |-> y, width |-> width, height |-> height]

\* The row of column headings at the top of a page, without the heading `missing`.
HeadingRow(missing) ==
    SelectSeq(<< Element("Proposal", 370, 0, 60, 10),
                 Element("Document", 0, 0, 60, 10),
                 Element("Lodged ", 70, 0, 50, 10),
                 Element("Subject Land", 130, 0, 100, 10),
                 Element("Estimated", 300, 0, 60, 10) >>,
              LAMBDA element : RemoveWhiteSpace(ToLowerCase(element.text)) # missing)

HeadingNames == {"document", "lodged", "subjectland", "estimated", "proposal"}

\* The elements of one development application whose first row is at y, in the
\* order the decoder gives them.
ApplicationRow(kind, y) ==
    CASE kind = "none" -> <<>>
      [] kind = "normal" ->
             << Element("Approval:", 480, y, 50, 10),
                Element("45/2019", 0, y, 50, 10),
                Element("LOT: 5 SEC: 2", 130, y + 12, 90, 10),
                Element("7/02/2019", 70, y, 50, 10),
                Element("8 West Terrace ", 130, y, 90, 10),
                Element("MENINGIE", 220, y, 50, 10),
                Element("Dwelling", 370, y, 60, 10) >>
      [] kind = "repeat" ->
             << Element("Approval:", 480, y, 50, 10),
                Element("45/2019", 0, y, 50, 10),
                Element("31/02/2019", 70, y, 50, 10),
                Element("1  MAIN STREET TAILEM BEND", 130, y, 160, 10),
                Element("Shed", 370, y, 30, 10) >>
      [] kind = "other" ->
             << Element("Approvel:", 480, y, 50, 10),
                Element("46l2019", 0, y, 50, 10),
                Element("07/02/2019", 70, y, 50, 10),
                Element("LOT: 7", 130, y, 40, 10),
                Element("4,665 Princes HWY MENNINGEE", 130, y + 12, 160, 10),
                Element("Carport ..... and verandah", 370, y, 100, 10),
                Element("Conditions:", 480, y + 24, 60, 10) >>
      [] kind = "blank" ->
             << Element("Approval:", 480, y, 50, 10),
                Element(" ", 0, y, 50, 10),
                Element("7/02/2019", 70, y, 50, 10),
                Element("8 West Terrace MENINGIE", 130, y, 140, 10) >>
      [] kind = "unknown" ->
             << Element("Approval:", 480, y, 50, 10),
                Element("47/2019", 0, y, 50, 10),
                Element("7/02/2019 8 West Terrace ADELAIDE", 70, y, 200, 10),
                Element("Dwelling", 370, y, 60, 10) >>
      [] kind = "twin" ->
             << Element("Approval:", 480, y, 50, 10),
                Element("Approval:", 540, y, 50, 10),
                Element("48/2019", 0, y, 50, 10),
                Element("8 West Terrace MENINGIE", 130, y, 140, 10) >>
      [] kind = "three" ->
             << Element("Approval:", 480, y, 50, 10),
                Element("49/2019", 0, y, 50, 10),
                Element("8 West Terrace MENINGIE", 130, y, 140, 10),
                Element(" ", 370, y, 60, 10),
                Element("LOT: 5 SEC: 2", 130, y + 12, 90, 10),
                Element("HD: SEYMOUR", 130, y + 24, 90, 10) >>
      [] kind = "joined" ->
             << Element("Approval:", 480, y, 50, 10),
                Element("50/2019", 0, y, 50, 10),
                Element("7/02/2019 8 West Terrace MENINGIE", 70, y, 200, 10),
                Element("Shed", 370, y, 30, 10),
                Element("LOT: 9", 130, y + 12, 40, 10) >>
      [] kind = "lotonly" ->
             << Element("Approval:", 480, y, 50, 10),
                Element("51/2019", 0, y, 50, 10),
                Element("7/02/2019", 70, y, 50, 10),
                Element("LOT: 7", 130, y, 40, 10),
                Element(" ", 130, y + 12, 40, 10) >>
      [] kind = "tall" ->
             << Element("Approval:", 480, y, 50, 10),
                Element("52/2019", 0, y, 50, 10),
                Element("7/02/2019", 70, y, 50, 10),
                Element("8 West Terrace MENINGIE", 130, y, 140, 10),
                Element("Dwelling and garage", 370, y, 100, 70) >>
      [] kind = "short" ->
             << Element("Approval:", 480, y, 50, 10),
                Element("53/2019", 0, y, 50, 10),
                Element("7/02/2019", 70, y, 50, 10),
                Element("8 West Terrace MENINGIE", 130, y, 140, 10),
                Element("Shed", 370, y, 30, 10),
                Element("and pergola", 370, y + 56, 60, 2) >>
      [] kind = "tenth" ->
             << Element("Approval:", 480, y, 50, 10),
                Element("54/2019", 0, y, 50, 10),
                Element("7/02/2019", 70, y, 50, 10),
                Element("8 West Terrace MENINGIE", 130, y, 140, 10),
                Element("LOT: 3", 130, y + 12, 40, 10),
                Element("Shed", 352, y, 20, 10),
                Element("Fence", 354, y + 2, 18, 10) >>
      [] kind = "left" ->
             << Element("Approval:", 300, y, 50, 10),
                Element("55/2019", 0, y, 50, 10),
                Element("7/02/2019", 70, y, 50, 10),
                Element("8 West Terrace MENINGIE", 130, y, 140, 10),
                Element("LOT: 4", 130, y + 12, 40, 10),
                Element("Shed", 370, y, 30, 10) >>

RowKinds == {"none", "normal", "repeat", "other", "blank", "unknown", "twin"}

\* Kinds of application of the pages with one application: three rows in the
\* address block, no date and a blank description; the date and the address in
\* one element; a legal description above a blank row; description elements with
\* a tenth and with a ninth of their area in the description column; the
\* "Approval:" element left of the heading "Proposal".
SingleRowKinds == {"three", "joined", "lotonly", "tenth", "left"}

\* Kinds of application of the pages where a "normal" application follows: an
\* element that reaches below the top of the row of the next application, and a
\* low element just above that row.
FollowedKinds == {"tall", "short"}

\* The page of the example of C10.
ExamplePage ==
    << Element("DEV APP NO", 0, 0, 80, 10),
       Element("123/2019", 80, 0, 60, 10),
       Element("1 MAIN STREET MENINGIE 5264", 0, 20, 200, 10) >>

\* The pages the decoder may give: all the headings and two applications of any
\* kind; one heading missing above one or two applications; all the headings
\* and one application of the other kinds, alone or before a second application;
\* the example page.
Pages ==
    {HeadingRow("") \o ApplicationRow(k1, 40) \o ApplicationRow(k2, 100) :
         k1 \in RowKinds, k2 \in RowKinds}
    \cup {HeadingRow(missing) \o ApplicationRow(k1, 40) \o ApplicationRow(k2, 100) :
              missing \in HeadingNames, k1 \in {"normal", "blank"}, k2 \in {"none", "unknown"}}
    \cup {HeadingRow("") \o ApplicationRow(kind, 40) : kind \in SingleRowKinds}
    \cup {HeadingRow("") \o ApplicationRow(kind, 40) \o ApplicationRow("normal", 100) :
              kind \in FollowedKinds}
    \cup {ExamplePage}

(***************************************************************************)
(* parsePdf (src/scraper.ts).                                              *)
(***************************************************************************)

\* The start element with the leeway of half its height.
RaisedStartElement(startElement) ==
    [startElement EXCEPT !.y = startElement.y - startElement.height \div 2]

\* The top of the row of the start element after startElements[index], the
\* bottom of the page when there is none.
NextRowTop(pageElements, startElements, index) ==
    IF index + 1 <= Len(startElements)
    THEN getRowTop(pageElements, startElements[index + 1])
    ELSE NumberMaxValue

\* elements.filter(element => element.y >= rowTop && element.y + element.height < nextRowTop)
ElementsBetween(pageElements, rowTop, nextRowTop) ==
    SelectSeq(pageElements, LAMBDA element :
                  element.y >= rowTop /\ element.y + element.height < nextRowTop)

\* The sections of a page: for each start element, the elements from the top of
\* its row (raised by half its height) to above the top of the next start
\* element's row.
ApplicationElementGroups(pageElements, startElements) ==
    SubSeq([index \in 1..Len(startElements) |->
               [startElement |-> startElements[index],
                elements |-> ElementsBetween(
                                 pageElements,
                                 getRowTop(pageElements,
                                           RaisedStartElement(startElements[index])),
                                 NextRowTop(pageElements, startElements, index))]],
           1, Len(startElements))

applicationElementGroupsOf(pageElements) ==
    ApplicationElementGroups(pageElements, findStartElements(pageElements))

\* The column headings of a page.
headingElementsOf(pageElements) ==
    [document    |-> FindHeading(pageElements, "document"),
     lodged      |-> FindHeading(pageElements, "lodged"),
     subjectLand |-> FindHeading(pageElements, "subjectland"),
     estimated   |-> FindHeading(pageElements, "estimated"),
     proposal    |-> FindHeading(pageElements, "proposal"),
     approval    |-> Undefined,
     conditions  |-> Undefined]

NoHeadings == headingElementsOf(<<>>)

\* developmentApplications with every developmentApplication pushed.
PushAlways(applications, developmentApplication) ==
    Append(applications, developmentApplication)

\* developmentApplications after a section gave developmentApplication: it is
\* pushed unless an application with the same number is there already.
PushUnlessDuplicate(applications, developmentApplication) ==
    IF \E i \in 1..Len(applications) :
           applications[i].applicationNumber = developmentApplication.applicationNumber
    THEN applications
    ELSE Append(applications, developmentApplication)

\* The lines a section logged, each with the number of the section.
LinesOf(section, lines) ==
    [i \in 1..Len(lines) |->
        [section |-> section, msg |-> lines[i].msg, detail |-> lines[i].detail]]

Init ==
    /\ pc = "getDocument"
    /\ pageIndex = 0
    /\ pdf = [open |-> FALSE, numPages |-> 0]
    /\ elements = <<>>
    /\ applicationElementGroups = <<>>
    /\ groupIndex = 0
    /\ headingElements = NoHeadings
    /\ developmentApplications = <<>>
    /\ log = <<>>
    /\ call = [op |-> "none", address |-> "", first |-> ""]
    /\ ret = [value |-> "", log |-> <<>>]
    /\ database = <<>>

\* The page counts the decoder may report at a page index: up to MaxPages, and
\* in the last MaxPages iterations before the limit of the loop also a count
\* above the limit (so that the model follows a document of more pages than
\* the limit over its last iterations only).
PageCounts(index) ==
    (0..MaxPages) \cup (IF index >= PageLimit - MaxPages THEN {PageLimit + 1} ELSE {})

\* The condition of the page loop with no limit.
NoPageLimit(index) == TRUE

\* The condition of the page loop: pageIndex < 5000.
WithinPageLimit(index) == index < PageLimit

\* The head of the page loop: it ends at the limit; otherwise the document is
\* decoded again, and the loop ends when the page index is not below the page
\* count the decoder reports.
GetDocument ==
    /\ pc = "getDocument"
    /\ IF WithinPageLimit(pageIndex)
       THEN \E numPages \in PageCounts(pageIndex) :
                /\ pdf' = [open |-> TRUE, numPages |-> numPages]
                /\ pc' = IF pageIndex >= numPages THEN "done" ELSE "getPage"
       ELSE /\ pc' = "done"
            /\ UNCHANGED pdf
    /\ elements' = <<>>
    /\ applicationElementGroups' = <<>>
    /\ groupIndex' = 0
    /\ headingElements' = NoHeadings
    /\ log' = <<>>
    /\ UNCHANGED <<pageIndex, developmentApplications, call, ret, database>>

\* The elements of the page, sorted, are grouped into sections and the column
\* headings located.
PageSorted(sorted) ==
    /\ elements' = sorted
    /\ applicationElementGroups' = applicationElementGroupsOf(sorted)
    /\ headingElements' = headingElementsOf(sorted)

\* The page is read, the document destroyed, the elements sorted and grouped
\* into sections, and the column headings located.
GetPage ==
    /\ pc = "getPage"
    /\ \E page \in Pages : PageSorted(SortElements(page))
    /\ pdf' = [pdf EXCEPT !.open = FALSE]
    /\ groupIndex' = 0
    /\ pc' = "parse"
    /\ UNCHANGED <<pageIndex, developmentApplications, log, call, ret, database>>

\* Reading the page raises an error (pdf.getPage or page.getTextContent
\* rejects): it leaves parsePdf before pdf.destroy().
GetPageFails ==
    /\ pc = "getPage"
    /\ pc' = "threw"
    /\ UNCHANGED <<pageIndex, pdf, elements, applicationElementGroups, groupIndex,
                   headingElements, developmentApplications, log, call, ret, database>>

\* headingElements with the approval and conditions elements of the section.
SectionHeadings(headings, applicationElementGroup) ==
    [headings EXCEPT
         !.approval = applicationElementGroup.startElement,
         !.conditions = FindHeading(applicationElementGroup.elements, "conditions:")]

\* The rest of the iteration for a section, given what parseApplicationElements did.
SectionParsed(result) ==
    /\ log' = log \o LinesOf(groupIndex + 1, result.log)
    /\ IF result.kind = "throw"
       THEN /\ pc' = "threw"
            /\ UNCHANGED <<groupIndex, developmentApplications>>
       ELSE /\ pc' = "parse"
            /\ groupIndex' = groupIndex + 1
            /\ developmentApplications' =
                   IF result.kind = "application"
                   THEN PushUnlessDuplicate(developmentApplications, result.value)
                   ELSE developmentApplications

\* The iteration for a section, given the headings of the section.
SectionWith(applicationElementGroup, headings) ==
    /\ headingElements' = headings
    /\ SectionParsed(parseApplicationElements(applicationElementGroup.elements,
                                              headings, Url))

\* One iteration of the loop over the sections of the page.
ParseSection ==
    /\ pc = "parse"
    /\ groupIndex < Len(applicationElementGroups)
    /\ SectionWith(applicationElementGroups[groupIndex + 1],
                   SectionHeadings(headingElements,
                                   applicationElementGroups[groupIndex + 1]))
    /\ UNCHANGED <<pageIndex, pdf, elements, applicationElementGroups, call, ret, database>>

\* The sections of the page are done: the loop goes on to the next page.
NextPage ==
    /\ pc = "parse"
    /\ groupIndex = Len(applicationElementGroups)
    /\ pageIndex' = pageIndex + 1
    /\ pc' = "getDocument"
    /\ UNCHANGED <<pdf, elements, applicationElementGroups, groupIndex, headingElements,
                   developmentApplications, log, call, ret, database>>

Next == GetDocument \/ GetPage \/ GetPageFails \/ ParseSection \/ NextPage

Spec == Init /\ [][Next]_vars

\* parsePdf at the head of the page loop, at its entry or MaxPages iterations
\* before the limit of the loop (where it is when the decoder reported more
\* pages at every iteration and no page so far held an application).
InitLoop ==
    /\ pc = "getDocument"
    /\ pageIndex \in {0, PageLimit - MaxPages}
    /\ pdf = [open |-> FALSE, numPages |-> 0]
    /\ elements = <<>>
    /\ applicationElementGroups = <<>>
    /\ groupIndex = 0
    /\ headingElements = NoHeadings
    /\ developmentApplications = <<>>
    /\ log = <<>>
    /\ call = [op |-> "none", address |-> "", first |-> ""]
    /\ ret = [value |-> "", log |-> <<>>]
    /\ database = <<>>

\* parsePdf goes on: the position it is at is left, for the next position of the
\* page loop or the next section of the page.
Settle ==
    \/ pc = "getDocument" /\ pc' \in {"done", "getPage"} /\ groupIndex' = 0
    \/ pc = "getPage" /\ pc' \in {"parse", "threw"} /\ groupIndex' = groupIndex
    \/ pc = "parse" /\ pc' \in {"threw", "getDocument"} /\ groupIndex' = groupIndex
    \/ pc = "parse" /\ pc' = "parse" /\ groupIndex' = groupIndex + 1

\* The page loop, every await of which settles.
SpecLoop == InitLoop /\ [][Next]_vars /\ WF_<<pc, groupIndex>>(Settle)

(***************************************************************************)
(* Calls of formatAddress on raw addresses: a house number, a street, a    *)
(* suburb as written in the document (exact, in another case, misspelt by  *)
(* one, two or three letters, with a doubled space, or unknown) and what   *)
(* may follow it (a postcode, a state and a postcode).                     *)
(***************************************************************************)

HouseNumbers == {"", "1 ", "4,665 ", "12,345 ", "LOT: 5 "}

Streets == {"", "Princes HWY ", "MAIN STREET "}

WrittenSuburbs ==
    {"", "MENINGIE", "Meningie", "MENINGEE", "MENNINGEE", "MENNINGEEE",
     "TAILEM BEND", "TAILEM  BEND", "KI KI", "PEAKE", "ADELAIDE"}

Suffixes == {"", " 5264", " SA 5264", " "}

RawAddresses ==
    {h \o st \o sb \o sf : h \in HouseNumbers, st \in Streets, sb \in WrittenSuburbs,
                           sf \in Suffixes}

\* parsePdf is not running.
ParseIdle ==
    /\ pc = "idle"
    /\ pageIndex = 0
    /\ pdf = [open |-> FALSE, numPages |-> 0]
    /\ elements = <<>>
    /\ applicationElementGroups = <<>>
    /\ groupIndex = 0
    /\ headingElements = NoHeadings
    /\ developmentApplications = <<>>
    /\ log = <<>>

InitAddress ==
    /\ ParseIdle
    /\ call = [op |-> "none", address |-> "", first |-> ""]
    /\ ret = [value |-> "", log |-> <<>>]
    /\ database = <<>>

\* formatAddress(address) for a raw address.
CallFormatAddress ==
    /\ call.op = "none"
    /\ \E address \in RawAddresses :
           /\ call' = [op |-> "formatAddress", address |-> address, first |-> ""]
           /\ ret' = formatAddressCall(address)
    /\ UNCHANGED <<parseVars, database>>

\* formatAddress applied to the address the first call returned.
CallFormatAddressAgain ==
    /\ call.op = "formatAddress"
    /\ call' = [op |-> "formatAddressAgain", address |-> call.address, first |-> ret.value]
    /\ ret' = formatAddressCall(ret.value)
    /\ UNCHANGED <<parseVars, database>>

NextAddress == CallFormatAddress \/ CallFormatAddressAgain

SpecAddress == InitAddress /\ [][NextAddress]_vars


(***************************************************************************)
(* The rectangle functions called on their own (src/scraper.ts, intersect, *)
(* getPercentageOfElementInRectangle and getRowTop): call holds the        *)
(* arguments of the call made last and ret what it returned.               *)
(***************************************************************************)

\* The greatest co-ordinate, width and height of the rectangles of the calls.
MaxCoordinate == 2

\* The most elements in the row of a call of getRowTop.
MaxRow == 2

\* The rectangles of the calls: the widths and heights are not negative.
Rectangles ==
    [x : 0..MaxCoordinate, y : 0..MaxCoordinate,
     width : 0..MaxCoordinate, height : 0..MaxCoordinate]

\* An element of a row: getRowTop reads y and height only.
RowElement(y, height) == [text |-> "", x |-> 0, y |-> y, width |-> 2, height |-> height]

\* The elements of the rows of the calls.
RowElements == {RowElement(y, height) : y \in 0..MaxCoordinate, height \in 0..MaxCoordinate}

\* The rows of the calls.
Rows == UNION {[1..n -> RowElements] : n \in 0..MaxRow}

\* The start elements of the calls, of a normal height.
StartElements == {RowElement(y, height) : y \in 0..MaxCoordinate, height \in 1..MaxCoordinate}

\* The elements more than twice as tall as startElement.
TallElements(startElement) ==
    {RowElement(y, height) : y \in 0..MaxCoordinate,
                             height \in (2 * startElement.height + 1)..(2 * MaxCoordinate + 2)}

\* The row with an element more, as its element number i + 1.
Inserted(row, i, element) == SubSeq(row, 1, i) \o <<element>> \o SubSeq(row, i + 1, Len(row))

InitGeometry ==
    /\ ParseIdle
    /\ call = [op |-> "none"]
    /\ ret = [value |-> 0]
    /\ database = <<>>

\* intersect(rectangle1, rectangle2)
CallIntersect ==
    /\ call.op = "none"
    /\ \E rectangle1 \in Rectangles, rectangle2 \in Rectangles :
           /\ call' = [op |-> "intersect", rectangle1 |-> rectangle1, rectangle2 |-> rectangle2]
           /\ ret' = [value |-> intersect(rectangle1, rectangle2)]
    /\ UNCHANGED <<parseVars, database>>

\* getPercentageOfElementInRectangle(element, rectangle)
CallGetPercentage ==
    /\ call.op = "none"
    /\ \E element \in Rectangles, rectangle \in Rectangles :
           /\ call' = [op |-> "getPercentageOfElementInRectangle",
                       element |-> element, rectangle |-> rectangle]
           /\ ret' = [value |-> getPercentageOfElementInRectangle(element, rectangle)]
    /\ UNCHANGED <<parseVars, database>>

\* getRowTop(elements, startElement)
CallGetRowTop ==
    /\ call.op = "none"
    /\ \E row \in Rows, startElement \in StartElements :
           /\ call' = [op |-> "getRowTop", elements |-> row, startElement |-> startElement,
                       first |-> 0]
           /\ ret' = [value |-> getRowTop(row, startElement)]
    /\ UNCHANGED <<parseVars, database>>

\* getRowTop for the elements of the call before and a tall element among them.
CallGetRowTopWithTall ==
    /\ call.op = "getRowTop"
    /\ \E tall \in TallElements(call.startElement), i \in 0..Len(call.elements) :
           /\ call' = [op |-> "getRowTopWithTall",
                       elements |-> Inserted(call.elements, i, tall),
                       startElement |-> call.startElement, first |-> ret.value,
                       tall |-> tall]
           /\ ret' = [value |-> getRowTop(Inserted(call.elements, i, tall), call.startElement)]
    /\ UNCHANGED <<parseVars, database>>

NextGeometry == CallIntersect \/ CallGetPercentage \/ CallGetRowTop \/ CallGetRowTopWithTall

SpecGeometry == InitGeometry /\ [][NextGeometry]_vars


(***************************************************************************)
(* getRightElement and findStartElements called on their own               *)
(* (src/scraper.ts): call holds the arguments of the call made last and    *)
(* ret what it returned.                                                   *)
(***************************************************************************)

\* The most elements of a page given to findStartElements.
MaxLabelElements == 4

\* The most elements given to getRightElement besides the element itself.
MaxRightElements == 2

\* The element getRightElement is called for.
LeftElement == Element("Ap", 0, 10, 20, 10)

\* The elements that may be to its right: overlapping it, touching it, after a
\* gap of 4, 28, 30 and 40; on its row, lower by less and by more than half a
\* height, and on the next row; of its height and three times as tall.
RightCandidates ==
    {Element("proval:", x, y, 20, height) :
         x \in {10, 20, 24, 48, 50, 60}, y \in {10, 14, 16, 22}, height \in {10, 30}}

\* The lists of elements given to getRightElement.
RightLists == UNION {[1..n -> RightCandidates] : n \in 0..MaxRightElements}

\* The texts of the elements of a row of a page, from left to right.
LabelRows ==
    { <<"Approval:">>, <<"Approval", ":">>, <<"Ap", "proval", ":">>,
      <<"Approvals", ":">>, <<"Approvals:">>, <<"Approval:xy">>,
      <<"A", "Approval:">>, <<"Applicant", "s">>, <<"Aproval:", "s">>,
      <<"Approval:", "x">>, <<"Approval", "s", ":">>, <<"Apxproval", ":">>,
      <<"Estimated", "Approval:">> }

\* The elements of a row of texts at y: 20 wide and 10 high, 4 apart.
LabelRow(texts, y) ==
    [i \in 1..Len(texts) |-> Element(texts[i], (i - 1) * 24, y, 20, 10)]

\* The pages given to findStartElements: one row, or two rows one above the
\* other, of no more than MaxLabelElements elements.
LabelPages ==
    {LabelRow(texts, 0) : texts \in {t \in LabelRows : Len(t) <= MaxLabelElements}}
    \cup {LabelRow(rows[1], 0) \o LabelRow(rows[2], 20) :
              rows \in {r \in LabelRows \X LabelRows :
                            Len(r[1]) + Len(r[2]) <= MaxLabelElements}}

\* The orders the n elements of a page may be given in.
Orders(n) == {f \in [1..n -> 1..n] : \A i \in 1..n : \A j \in 1..n : i # j => f[i] # f[j]}

\* The elements of a page in an order.
InOrder(page, order) == [i \in 1..Len(page) |-> page[order[i]]]

\* The elements whose text starts with "a" or "A", in the order of the page.
StartCandidates(pageElements) ==
    SelectSeq(pageElements, LAMBDA element :
                  StartsWith(ToLowerCase(Trim(element.text)), "a"))

\* bestMatch of each element that starts with "a", Undefined when it has no match.
BestMatches(pageElements, candidates) ==
    SubSeq([i \in 1..Len(candidates) |->
               BestMatch(StartMatches(pageElements, candidates[i], <<>>, <<>>),
                         1, Undefined)],
           1, Len(candidates))

InitStart ==
    /\ ParseIdle
    /\ call = [op |-> "none"]
    /\ ret = [value |-> Undefined]
    /\ database = <<>>

\* getRightElement(elements, element)
CallGetRightElement ==
    /\ call.op = "none"
    /\ \E list \in RightLists :
           /\ call' = [op |-> "getRightElement", elements |-> list, element |-> LeftElement]
           /\ ret' = [value |-> getRightElement(list, LeftElement)]
    /\ UNCHANGED <<parseVars, database>>

\* findStartElements(elements) returned, bestMatches being the bestMatch its loop
\* found for each element that starts with "a".
FoundStartElements(pageElements, candidates) ==
    /\ call' = [op |-> "findStartElements", elements |-> pageElements,
                candidates |-> candidates]
    /\ ret' = [value |-> findStartElements(pageElements),
               bestMatches |-> BestMatches(pageElements, candidates)]

\* findStartElements(elements)
CallFindStartElements ==
    /\ call.op = "none"
    /\ \E page \in LabelPages : \E order \in Orders(Len(page)) :
           FoundStartElements(InOrder(page, order), StartCandidates(InOrder(page, order)))
    /\ UNCHANGED <<parseVars, database>>

NextStart == CallGetRightElement \/ CallFindStartElements

SpecStart == InitStart /\ [][NextStart]_vars


(***************************************************************************)
(* The database (src/scraper.ts, initializeDatabase and insertRow): the    *)
(* table [data], whose primary key is the column council_reference, as the *)
(* sequence of its rows in the order they were inserted.                   *)
(***************************************************************************)

\* The most calls of insertRow in a run of the model.
MaxInserts == 4

\* create table if not exists [data] (...): a table that exists is kept.
CreateTableIfNotExists(table) == table

\* The values bound to the statement of insertRow.
RowOf(developmentApplication) ==
    [council_reference |-> developmentApplication.applicationNumber,
     address           |-> developmentApplication.address,
     description       |-> developmentApplication.description,
     info_url          |-> developmentApplication.informationUrl,
     comment_url       |-> developmentApplication.commentUrl,
     date_scraped      |-> developmentApplication.scrapeDate,
     date_received     |-> developmentApplication.receivedDate,
     legal_description |-> developmentApplication.legalDescription]

\* The row is in conflict with a row of the table on the primary key.
KeyConflict(table, row) ==
    \E i \in 1..Len(table) : table[i].council_reference = row.council_reference

\* insert or replace into [data]: a row in conflict is replaced.
InsertOrReplace(table, row) ==
    IF KeyConflict(table, row)
    THEN [i \in 1..Len(table) |->
             IF table[i].council_reference = row.council_reference THEN row ELSE table[i]]
    ELSE Append(table, row)

\* insert or ignore into [data]: a row in conflict is not inserted.
InsertOrIgnore(table, row) ==
    IF KeyConflict(table, row) THEN table ELSE Append(table, row)

\* this.changes of the statement run on the table.
Changes(table, row) == Len(InsertOrIgnore(table, row)) - Len(table)

\* The line insertRow logs.
InsertLine(changes, developmentApplication) ==
    [msg |-> IF changes > 0 THEN "Inserted" ELSE "Skipped", detail |-> developmentApplication]

\* The development applications insertRow is called with: two application
\* numbers, each with two addresses.
InsertedApplications ==
    {DevelopmentApplication(applicationNumber, address, "Dwelling", Url, "7/02/2019", "") :
         applicationNumber \in {"45/2019", "46/2019"},
         address \in {"8 West Terrace, MENINGIE SA 5264",
                      "1 MAIN STREET, TAILEM BEND SA 5260"}}

InitDatabase ==
    /\ ParseIdle
    /\ call = [op |-> "none"]
    /\ ret = [changes |-> 0]
    /\ database = <<>>

\* initializeDatabase()
InitializeDatabase ==
    /\ call.op = "none"
    /\ call' = [op |-> "initializeDatabase"]
    /\ database' = CreateTableIfNotExists(database)
    /\ UNCHANGED <<parseVars, ret>>

\* insertRow(database, developmentApplication)
InsertRow ==
    /\ call.op # "none"
    /\ Len(log) < MaxInserts
    /\ \E developmentApplication \in InsertedApplications :
           /\ call' = [op |-> "insertRow", developmentApplication |-> developmentApplication]
           /\ database' = InsertOrIgnore(database, RowOf(developmentApplication))
           /\ ret' = [changes |-> Changes(database, RowOf(developmentApplication))]
           /\ log' = Append(log, InsertLine(Changes(database, RowOf(developmentApplication)),
                                            developmentApplication))
    /\ UNCHANGED <<pc, pageIndex, pdf, elements, applicationElementGroups, groupIndex,
                   headingElements, developmentApplications>>

NextDatabase == InitializeDatabase \/ InsertRow

SpecDatabase == InitDatabase /\ [][NextDatabase]_vars

(***************************************************************************)
(* Properties of parsePdf, checked under Spec.                             *)
(***************************************************************************)

\* The application numbers of the applications.
Ids(applications) ==
    {applications[i].applicationNumber : i \in 1..Len(applications)}

\* The loop over the sections is about to parse a section.
SectionStep == pc = "parse" /\ groupIndex < Len(applicationElementGroups)

\* The messages of the lines that say a section is ignored.
DropDiagnostics == {"NoApplicationNumber", "SuburbNotRecognised", "NoAddress"}

\* What parseApplicationElements gave for the section parsed last.
LastResult ==
    parseApplicationElements(applicationElementGroups[groupIndex].elements,
                             headingElements, Url)

\* The section gave an application with the number of the application held and
\* another address.
RepeatsNumberOf(result, application) ==
    /\ result.kind = "application"
    /\ result.value.applicationNumber = application.applicationNumber
    /\ result.value.address # application.address

\* The lines in the log of the section with this number.
LinesOfSection(section) == SelectSeq(log, LAMBDA line : line.section = section)

\* C1: the applications parsePdf holds have pairwise distinct application
\* numbers, and the one kept for a number is the first produced: no step changes
\* or removes an application already held, and a step appends at most one
\* application, whose number none of the applications held has.
C1_FirstRecordKept ==
    /\ [](\A i, j \in 1..Len(developmentApplications) :
              developmentApplications[i].applicationNumber
                  = developmentApplications[j].applicationNumber => i = j)
    /\ [][/\ Len(developmentApplications') \in
                  {Len(developmentApplications), Len(developmentApplications) + 1}
          /\ SubSeq(developmentApplications', 1, Len(developmentApplications))
                 = developmentApplications
          /\ Len(developmentApplications') = Len(developmentApplications) + 1
                 => developmentApplications'[Len(developmentApplications')].applicationNumber
                        \notin Ids(developmentApplications)]_vars

\* C1 witness: the second section of a page gave an application with the number
\* of the application of the first section and other details, and only the
\* first is held.
C1_Witness ==
    /\ pc = "parse"
    /\ groupIndex = 2
    /\ Len(developmentApplications) = 1
    /\ RepeatsNumberOf(LastResult, developmentApplications[1])

\* C2: every application parsePdf holds has a non-empty application number and
\* a non-empty address.
C2_RecordsHaveNumberAndAddress ==
    \A i \in 1..Len(developmentApplications) :
        /\ developmentApplications[i].applicationNumber # ""
        /\ developmentApplications[i].address # ""

\* C2 witness: on one page a section with no application number and a section
\* with no address were ignored, and an application of an earlier page is held.
C2_Witness ==
    /\ pc = "parse"
    /\ groupIndex = 2
    /\ \E i \in 1..Len(log) : log[i].msg = "NoApplicationNumber"
    /\ \E i \in 1..Len(log) : log[i].msg = "NoAddress"
    /\ Len(developmentApplications) = 1

\* C3 as stated: when the page has no "Document" heading, parsing a section
\* ignores it with a line that lists the texts of its elements, holds no more
\* applications than before, goes on to the next section and raises no error.
C3_MissingDocumentHeadingSkips ==
    [][(SectionStep /\ headingElements.document = Undefined)
           => /\ pc' = "parse"
              /\ groupIndex' = groupIndex + 1
              /\ developmentApplications' = developmentApplications
              /\ Len(log') = Len(log) + 1
              /\ log'[Len(log')].msg = "NoApplicationNumber"
              /\ log'[Len(log')].detail =
                     ElementSummary(SortElements(
                         applicationElementGroups[groupIndex + 1].elements))]_vars

\* C4 as stated: no section aborts parsePdf: parsing a section always goes on to
\* the next section of the page, whatever is missing from the page or the section.
C4_NoSectionAborts ==
    [][SectionStep => (pc' = "parse" /\ groupIndex' = groupIndex + 1)]_vars

\* C5 as stated: a section that adds no application logs at least one line that
\* says it is ignored, before the next section is parsed.
C5_EveryDropLogged ==
    [][(SectionStep /\ groupIndex' = groupIndex + 1
            /\ developmentApplications' = developmentApplications)
           => \E i \in (Len(log) + 1)..Len(log') :
                  /\ log'[i].section = groupIndex + 1
                  /\ log'[i].msg \in DropDiagnostics]_vars

\* C5 as amended: a section that adds no application either logs a line that
\* says it is ignored for its application number or its address, or is a
\* duplicate: then it logs only the line of its application number, which an
\* application already held has.
C5_DropLoggedUnlessDuplicate ==
    [][(SectionStep /\ groupIndex' = groupIndex + 1
            /\ developmentApplications' = developmentApplications)
           => \/ \E i \in (Len(log) + 1)..Len(log') :
                     /\ log'[i].section = groupIndex + 1
                     /\ log'[i].msg \in {"NoApplicationNumber", "NoAddress"}
              \/ /\ Len(log') = Len(log) + 1
                 /\ log'[Len(log')].section = groupIndex + 1
                 /\ log'[Len(log')].msg = "Found"
                 /\ log'[Len(log')].detail \in Ids(developmentApplications)]_vars

\* C5 witness: on the second page the first section was ignored with a line for
\* its missing application number, and the second, a duplicate of the
\* application of the first page, logged only the line of its number.
C5_Witness ==
    /\ pc = "parse"
    /\ pageIndex = 1
    /\ groupIndex = 2
    /\ Len(developmentApplications) = 1
    /\ \E i \in 1..Len(LinesOfSection(1)) : LinesOfSection(1)[i].msg = "NoApplicationNumber"
    /\ Len(LinesOfSection(2)) = 1
    /\ LinesOfSection(2)[1].msg = "Found"
    /\ LinesOfSection(2)[1].detail = developmentApplications[1].applicationNumber

\* C10 as stated: once the sections of the page of the example are parsed,
\* parsePdf holds one application, with the number "123/2019" and the address
\* "1 MAIN STREET, MENINGIE SA 5264".
C10_ExampleRecord ==
    (/\ pc = "parse"
     /\ pageIndex = 0
     /\ elements = SortElements(ExamplePage)
     /\ groupIndex = Len(applicationElementGroups))
        => /\ Len(developmentApplications) = 1
           /\ developmentApplications[1].applicationNumber = "123/2019"
           /\ developmentApplications[1].address = "1 MAIN STREET, MENINGIE SA 5264"

\* A section of the page was parsed last, and parsePdf went on.
SectionDone == pc = "parse" /\ groupIndex >= 1

\* The elements of the section parsed last.
LastSection == applicationElementGroups[groupIndex].elements

\* parseApplicationElements got as far as the test of the address.
ReachedAddress(result) ==
    \/ result.kind = "application"
    \/ \E i \in 1..Len(result.log) : result.log[i].msg = "NoAddress"

\* The rows of the address block of a section.
AddressRowsOf(section, headings) ==
    AddressRows(ElementsIn(SortElements(section),
                           AddressBounds(headings, LeftmostElement(section),
                                         TopmostElement(section))), 1, <<>>)

\* The text of the elements in the received date rectangle of a section.
ReceivedDateTextOf(section, headings) ==
    Join(TextsIn(SortElements(section),
                 ReceivedDateBounds(headings, LeftmostElement(section),
                                    TopmostElement(section))), "")

\* The text of the elements in the description rectangle of a section.
DescriptionTextOf(section, headings) ==
    Join(TextsIn(SortElements(section),
                 DescriptionBounds(headings, TopmostElement(section),
                                   BottommostElement(section))), " ")

\* The first row of the address block starts with "LOT:" and there is a second.
LotRowFirst(addressRows) ==
    Len(addressRows) >= 2 /\ StartsWith(RowText(addressRows[1]), "LOT:")

\* For an address block with "LOT:" first: the second row is the address, the
\* first the legal description; with no address in the second row there is no
\* development application.
RowsSwapped(result, addressRows) ==
    LotRowFirst(addressRows)
        => IF formatAddress(RowText(addressRows[2])) = "" THEN result.kind = "undefined"
           ELSE /\ result.kind = "application"
                /\ result.value.address = formatAddress(RowText(addressRows[2]))
                /\ result.value.legalDescription = RowText(addressRows[1])

SwapChecked(result, section, headings) ==
    ReachedAddress(result) => RowsSwapped(result, AddressRowsOf(section, headings))

\* C14: when the address block of a section has two rows or more and its first
\* row starts with "LOT:", the address of the development application is the
\* formatted second row and its legal description is the first row.
C14_LotRowSwapped == SectionDone => SwapChecked(LastResult, LastSection, headingElements)

SwapSeen(result, section, headings) ==
    /\ result.kind = "application"
    /\ LotRowFirst(AddressRowsOf(section, headings))
    /\ result.value.legalDescription = "LOT: 7"
    /\ result.value.address = "4665 Princes HWY, MENINGIE SA 5264"

\* C14 witness: a section with the rows "LOT: 7" and "4,665 Princes HWY
\* MENNINGEE" gave a development application with that address.
C14_Witness == SectionDone /\ SwapSeen(LastResult, LastSection, headingElements)

\* t is a part of s.
Contains(s, t) == \E i \in 0..(Len(s) - Len(t)) : SubSeq(s, i + 1, i + Len(t)) = t

\* Every row after the first is in the legal description, when the first row
\* is the address.
RowsKept(legalDescription, addressRows) ==
    ~LotRowFirst(addressRows)
        => \A r \in 2..Len(addressRows) : Contains(legalDescription, RowText(addressRows[r]))

RowsChecked(result, section, headings) ==
    result.kind = "application"
        => RowsKept(result.value.legalDescription, AddressRowsOf(section, headings))

\* C15 as stated: the legal description of a development application holds
\* every row of the address block after the first.
C15_LegalDescriptionOfAllRows ==
    SectionDone => RowsChecked(LastResult, LastSection, headingElements)

\* The date a text gives when all of it is parsed strictly: its ISO form, "" when
\* it is no date.
StrictIso(text) == IF IsValidDate(text) THEN FormatDate(text) ELSE ""

\* The first n characters of a text.
FirstCharacters(text, n) == SubSeq(text, 1, Min2(n, Len(text)))

DateStrict(result, text) ==
    result.kind = "application" => result.value.receivedDate = StrictIso(Trim(text))

\* C16 as stated: the received date of a development application is the ISO
\* form of the date its received date text strictly spells, and "" when the text
\* is absent or is not strictly a date.
C16_StrictDateOrEmpty ==
    SectionDone => DateStrict(LastResult, ReceivedDateTextOf(LastSection, headingElements))

\* text is of the form YYYY-MM-DD.
IsIso(text) ==
    /\ Len(text) = 10
    /\ \A i \in {1, 2, 3, 4, 6, 7, 9, 10} : IsDigit(Ch(text, i))
    /\ Ch(text, 5) = "-" /\ Ch(text, 8) = "-"

DateOfStart(result, text) ==
    result.kind = "application"
        => result.value.receivedDate
               = StrictIso(RemoveWhiteSpace(FirstCharacters(Trim(text), 10)))

\* C16 as amended: the received date of a development application is "" or of
\* the form YYYY-MM-DD; it is the ISO form of the date that the first ten
\* characters of the trimmed received date text spell with their white space
\* removed, and "" when they spell no date, whatever follows them in the text.
C16_DateOfFirstTenCharacters ==
    /\ \A i \in 1..Len(developmentApplications) :
           \/ developmentApplications[i].receivedDate = ""
           \/ IsIso(developmentApplications[i].receivedDate)
    /\ SectionDone
           => DateOfStart(LastResult, ReceivedDateTextOf(LastSection, headingElements))

JoinedDateSeen(result, text) ==
    /\ result.kind = "application"
    /\ ~IsValidDate(Trim(text))
    /\ Len(Trim(text)) > 10
    /\ result.value.receivedDate = "2019-02-07"

\* C16 witness: a section whose received date text is the date and the address
\* in one element gave a development application with the date.
C16_Witness ==
    SectionDone /\ JoinedDateSeen(LastResult, ReceivedDateTextOf(LastSection, headingElements))

DescriptionDefaulted(result, text) ==
    (result.kind = "application" /\ RemoveWhiteSpace(text) = "")
        => result.value.description = "No Description Provided"

\* C17: the description of every development application held is not empty and
\* not white space only, and a section whose description rectangle gives white
\* space only, or nothing, has the description "No Description Provided".
C17_DescriptionNotBlank ==
    /\ \A i \in 1..Len(developmentApplications) :
           RemoveWhiteSpace(developmentApplications[i].description) # ""
    /\ SectionDone
           => DescriptionDefaulted(LastResult, DescriptionTextOf(LastSection, headingElements))

BlankDescriptionSeen(result, text) ==
    /\ result.kind = "application"
    /\ text # "" /\ RemoveWhiteSpace(text) = ""
    /\ result.value.description = "No Description Provided"

\* C17 witness: a section with a blank element in its description rectangle
\* gave a development application, which is held with the placeholder.
C17_Witness ==
    /\ SectionDone
    /\ BlankDescriptionSeen(LastResult, DescriptionTextOf(LastSection, headingElements))
    /\ developmentApplications[Len(developmentApplications)].description
           = "No Description Provided"

\* The page was grouped into sections.
PageGrouped == pc \in {"parse", "threw"}

\* rowTop of the section index of the page.
RowTopOf(pageElements, groups, index) ==
    getRowTop(pageElements, RaisedStartElement(groups[index].startElement))

\* nextRowTop of the section index of the page.
NextRowTopOf(pageElements, groups, index) ==
    IF index < Len(groups) THEN getRowTop(pageElements, groups[index + 1].startElement)
    ELSE NumberMaxValue

\* The element is one of the elements of the section.
InSection(element, group) == \E k \in 1..Len(group.elements) : group.elements[k] = element

\* Every element whose y is from rowTop to below nextRowTop is in the section.
SectionHolds(pageElements, group, rowTop, nextRowTop) ==
    \A e \in 1..Len(pageElements) :
        (pageElements[e].y >= rowTop /\ pageElements[e].y < nextRowTop)
            => InSection(pageElements[e], group)

SectionsHold(pageElements, groups) ==
    \A index \in 1..Len(groups) :
        SectionHolds(pageElements, groups[index], RowTopOf(pageElements, groups, index),
                     NextRowTopOf(pageElements, groups, index))

\* C21 as stated: every element whose y is from the row top of a start element
\* to below the row top of the next start element is in the section of the
\* first, whatever its height, and every element at or below the row top of the
\* last start element is in the last section.
C21_SectionsByRowTop == PageGrouped => SectionsHold(elements, applicationElementGroups)

\* percentage >= n
AtLeast(percentage, n) ==
    IF percentage.den = 0 THEN percentage.num > 0
    ELSE percentage.num >= n * percentage.den

\* The element belongs to the rectangle: at least 10 per cent of its area is
\* inside it.
Belongs(element, bounds) == AtLeast(getPercentageOfElementInRectangle(element, bounds), 10)

\* The texts of the elements of a sorted section that belong to the rectangle.
FieldTexts(sorted, bounds) ==
    Texts(SelectSeq(sorted, LAMBDA element : Belongs(element, bounds)))

\* The description that the joined text of the description elements gives.
DescriptionOfText(text) == IF Trim(text) = "" THEN "No Description Provided" ELSE text

DescriptionOfTexts(texts) ==
    DescriptionOfText(CollapseRuns(Trim(ReplaceDots(Join(texts, " ")))))

DescriptionFrom(result, section, headings) ==
    result.kind = "application"
        => result.value.description
               = DescriptionOfTexts(
                     FieldTexts(SortElements(section),
                                DescriptionBounds(headings, TopmostElement(section),
                                                  BottommostElement(section))))

\* C22: an element belongs to a field rectangle exactly when at least
\* 10 per cent of its area is inside it; the description is the text of the
\* elements with 10 per cent or more of their area in the description rectangle.
C22_AtLeastTenPerCent ==
    SectionDone => DescriptionFrom(LastResult, LastSection, headingElements)

\* The width and the height of the rectangle are not negative.
NotNegative(rectangle) == rectangle.width >= 0 /\ rectangle.height >= 0

\* The widths and heights of the elements are not negative.
ElementsNotNegative(pageElements) ==
    \A e \in 1..Len(pageElements) : NotNegative(pageElements[e])

\* The four rectangles parseApplicationElements builds for a section.
BoundsNotNegative(headings, leftmostElement, topmostElement, bottommostElement) ==
    /\ NotNegative(ApplicationNumberBounds(headings, leftmostElement, topmostElement))
    /\ NotNegative(ReceivedDateBounds(headings, leftmostElement, topmostElement))
    /\ NotNegative(AddressBounds(headings, leftmostElement, topmostElement))
    /\ NotNegative(DescriptionBounds(headings, topmostElement, bottommostElement))

SectionBoundsNotNegative(result, section, headings) ==
    result.kind = "application"
        => BoundsNotNegative(headings, LeftmostElement(section), TopmostElement(section),
                             BottommostElement(section))

\* C27: on a page whose elements have widths and heights that are not negative,
\* the application number, received date, address and description rectangles
\* of every section that parseApplicationElements goes through have a width
\* and a height that are not negative.
C27_RectanglesNotNegative ==
    (SectionDone /\ ElementsNotNegative(elements))
        => SectionBoundsNotNegative(LastResult, LastSection, headingElements)

\* Every section holds its start element.
StartElementsHeld(groups) ==
    \A index \in 1..Len(groups) : InSection(groups[index].startElement, groups[index])

\* C28: every section of a page holds its own start element, so that no section
\* given to parseApplicationElements is empty, also when two start elements are
\* on one row.
C28_SectionHoldsStartElement == PageGrouped => StartElementsHeld(applicationElementGroups)

\* Two sections have elements in common.
Shared(group1, group2) ==
    \E k \in 1..Len(group1.elements) : InSection(group1.elements[k], group2)

SectionsDisjoint(groups) ==
    \A i \in 1..Len(groups) : \A j \in (i + 1)..Len(groups) : ~Shared(groups[i], groups[j])

\* C29: the sections of a page are pairwise disjoint: no element is in two
\* sections.
C29_SectionsDisjoint == PageGrouped => SectionsDisjoint(applicationElementGroups)

\* parsePdf has ended: it returned or an error left it.
Ended == pc \in {"done", "threw"}

\* C12 as stated: a document acquired by an iteration of the page loop is
\* released before the loop acquires the next one and before parsePdf ends, on
\* every exit path.
C12_DocumentReleased == (pc = "getDocument" \/ Ended) => ~pdf.open

\* C13: the page loop ends; the page index never passes the limit of the loop
\* and a step leaves it as it is or adds one to it; a page is read only at an
\* index below the limit and below the page count the decode of that iteration
\* reported, and the loop ends at the first index that is not.
C13_PageLoopTerminates ==
    /\ <>Ended
    /\ [](pageIndex <= PageLimit)
    /\ [][pageIndex' \in {pageIndex, pageIndex + 1}]_vars
    /\ [][pc = "getDocument"
              => /\ pc' \in {"done", "getPage"}
                 /\ pc' = "getPage" <=> (pageIndex < PageLimit /\ pageIndex < pdf'.numPages)]_vars

\* C13 witness: the decoder reported more pages than the limit and the loop
\* ended at the limit.
C13_Witness == pc = "done" /\ pageIndex = PageLimit /\ pdf.numPages > PageLimit

(***************************************************************************)
(* Properties of formatAddress, checked under SpecAddress.                 *)
(***************************************************************************)

\* formatAddress does not return at its first test (empty, or the LOT: marker).
Accepted(address) == Trim(address) # "" /\ ~StartsWith(Trim(address), "LOT:")

\* The window of the last i tokens of the address, as formatAddress joins it.
WindowOf(address, i) == Join(SliceLast(Split(Trim(address)), i), " ")

\* The window of the last i tokens is within edit distance d of a suburb name.
Within(address, i, d) ==
    \E k \in 1..Len(SuburbNames) : EditDistance(WindowOf(address, i), SuburbNames[k].name) <= d

\* The smallest window of 1..4 tokens within distance d of a suburb name, or 0.
FirstWindow(address, d) ==
    IF \E i \in 1..4 : Within(address, i, d)
    THEN CHOOSE i \in 1..4 :
             Within(address, i, d) /\ \A j \in 1..(i - 1) : ~Within(address, j, d)
    ELSE 0

\* The first of the suburbs closest to the window of the last i tokens.
ClosestSuburb(address, i) ==
    CHOOSE k \in 1..Len(SuburbNames) :
        \A j \in 1..Len(SuburbNames) :
            LET dk == EditDistance(WindowOf(address, i), SuburbNames[k].name)
                dj == EditDistance(WindowOf(address, i), SuburbNames[j].name)
            IN  dk < dj \/ (dk = dj /\ k <= j)

\* The address built from the tokens before the window of the last i tokens and
\* the canonical string of suburb k.
AddressWith(address, i, k) ==
    LET tokens == Split(Trim(address))
        kept   == IF i >= Len(tokens) THEN <<>> ELSE SubSeq(tokens, 1, Len(tokens) - i)
        street == Trim(Join(kept, " "))
    IN  RemoveComma(Trim(street \o (IF street = "" THEN "" ELSE ", ") \o SuburbNames[k].value))

\* No window of 1..4 trailing tokens of the address matches a suburb.
NoSuburbWindow(address) == \A i \in 1..4 : ~Within(address, i, 2)

\* C6 as stated: when no window of trailing tokens matches a suburb, formatAddress
\* returns a non-empty fallback address for every non-empty input that does not
\* start with the LOT: marker.
C6_FallbackNonEmpty ==
    (call.op = "formatAddress" /\ Accepted(call.address) /\ NoSuburbWindow(call.address))
        => ret.value # ""

\* C6 as amended: when no window of 1..4 trailing tokens matches a suburb,
\* formatAddress logs that the suburb was not recognised and returns the empty
\* string; it returns a non-empty address only when a window matched.
C6_UnresolvedSuburbIsEmpty ==
    /\ (call.op = "formatAddress" /\ Accepted(call.address) /\ NoSuburbWindow(call.address))
           => /\ ret.value = ""
              /\ ret.log = << [msg |-> "SuburbNotRecognised", detail |-> Trim(call.address)] >>
    /\ (call.op = "formatAddress" /\ ret.value # "")
           => /\ ~NoSuburbWindow(call.address)
              /\ ret.log = <<>>

C6_Witness ==
    /\ call.op = "formatAddress"
    /\ call.address = "1 MAIN STREET ADELAIDE"
    /\ NoSuburbWindow(call.address)
    /\ ret.value = ""

\* C7 as stated: formatAddress is idempotent, formatAddress(formatAddress(x)) =
\* formatAddress(x) for every raw address x.
C7_Idempotent == call.op = "formatAddressAgain" => ret.value = call.first

\* The raw addresses of C8: a house number written as one digit, a comma and three
\* digits, then a street, a suburb of the dictionary and a 4-digit postcode.
ThousandsCommaAddresses ==
    {"4,665 " \o st \o SuburbNames[k].name \o " 5264" :
         st \in Streets \ {""}, k \in 1..Len(SuburbNames)}

\* C8 as stated: such an address normalizes to a non-empty address whose house
\* number is the same digits with the comma removed.
C8_ThousandsComma ==
    (call.op = "formatAddress" /\ call.address \in ThousandsCommaAddresses)
        => ret.value # "" /\ StartsWith(ret.value, "4665 ")

\* The statement of C9 for an edit distance d: formatAddress accepts the smallest
\* window of the last 1, 2, 3, 4 tokens that is within distance d of a suburb name,
\* removes exactly that window's tokens and uses the canonical string of the
\* closest suburb; with no such window it returns no address.
SuburbWindowClaim(d) ==
    (call.op = "formatAddress" /\ Accepted(call.address))
        => LET i == FirstWindow(call.address, d)
           IN  IF i = 0 THEN ret.value = ""
               ELSE ret.value = AddressWith(call.address, i, ClosestSuburb(call.address, i))

\* C9 as stated: a window is accepted only when it is within edit distance 1 of a
\* suburb name.
C9_WindowsWithinDistanceOne == SuburbWindowClaim(1)

\* C9 as amended: formatAddress tests the windows of the last 1, 2, 3 and 4 tokens
\* in that order, accepts a window when it is within edit distance 2 of a suburb
\* name, and on the first accepted window removes exactly that window's tokens and
\* uses that suburb's canonical string.
C9_WindowsWithinDistanceTwo == SuburbWindowClaim(2)

C9_Witness ==
    /\ call.op = "formatAddress"
    /\ call.address = "1 MAIN STREET MENNINGEE"
    /\ ~Within(call.address, 1, 1)
    /\ ret.value = "1 MAIN STREET, MENINGIE SA 5264"

(***************************************************************************)
(* Properties of insertRow, checked under SpecDatabase.                    *)
(***************************************************************************)

\* The first development application insertRow was called with for the key.
FirstInserted(key) ==
    log[CHOOSE k \in 1..Len(log) :
            /\ log[k].detail.applicationNumber = key
            /\ \A j \in 1..(k - 1) : log[j].detail.applicationNumber # key].detail

\* C11: after any calls of insertRow the table holds one row for each
\* application number insertRow was called with and no other row, that row is
\* the row of the first development application inserted with the number, and
\* inserting again the development application of the last call leaves the
\* table as it is.
C11_FirstRowKept ==
    /\ \A i, j \in 1..Len(database) :
           database[i].council_reference = database[j].council_reference => i = j
    /\ \A k \in 1..Len(log) :
           \E i \in 1..Len(database) :
               database[i] = RowOf(FirstInserted(log[k].detail.applicationNumber))
    /\ \A i \in 1..Len(database) :
           \E k \in 1..Len(log) :
               log[k].detail.applicationNumber = database[i].council_reference
    /\ call.op = "insertRow"
           => InsertOrIgnore(database, RowOf(call.developmentApplication)) = database

\* C11 witness: insertRow was called with two development applications of one
\* number and different addresses; the second call changed nothing and the
\* table holds the row of the first.
C11_Witness ==
    /\ Len(log) = 2
    /\ log[1].detail.applicationNumber = log[2].detail.applicationNumber
    /\ log[1].detail.address # log[2].detail.address
    /\ log[2].msg = "Skipped"
    /\ ret.changes = 0
    /\ database = << RowOf(log[1].detail) >>


(***************************************************************************)
(* Properties of the rectangle functions, checked under SpecGeometry.      *)
(***************************************************************************)

\* C18: intersect is commutative: for rectangles of widths and heights that are
\* not negative, intersect(a, b) and intersect(b, a) are the same rectangle.
C18_IntersectCommutes ==
    call.op = "intersect" => ret.value = intersect(call.rectangle2, call.rectangle1)

\* C18 witness: intersect was called for two rectangles that differ and share a
\* part of both, which is neither of them.
C18_Witness ==
    /\ call.op = "intersect"
    /\ call.rectangle1.x < call.rectangle2.x
    /\ getArea(ret.value) > 0
    /\ ret.value # call.rectangle1 /\ ret.value # call.rectangle2

\* The percentage is the number n.
IsPercentage(percentage, n) == percentage.den # 0 /\ percentage.num = n * percentage.den

\* The element and the rectangle have a point in common (their edges count).
Touching(element, rectangle) ==
    /\ Max2(element.x, rectangle.x)
           <= Min2(element.x + element.width, rectangle.x + rectangle.width)
    /\ Max2(element.y, rectangle.y)
           <= Min2(element.y + element.height, rectangle.y + rectangle.height)

\* The element and the rectangle have an area in common.
Overlapping(element, rectangle) ==
    /\ Max2(element.x, rectangle.x)
           < Min2(element.x + element.width, rectangle.x + rectangle.width)
    /\ Max2(element.y, rectangle.y)
           < Min2(element.y + element.height, rectangle.y + rectangle.height)

\* The element lies entirely inside the rectangle.
Inside(element, rectangle) ==
    /\ rectangle.x <= element.x
    /\ rectangle.y <= element.y
    /\ element.x + element.width <= rectangle.x + rectangle.width
    /\ element.y + element.height <= rectangle.y + rectangle.height

PercentageAsStated(element, rectangle, value) ==
    /\ ~Touching(element, rectangle) => IsPercentage(value, 0)
    /\ Inside(element, rectangle) => IsPercentage(value, 100)

\* C19 as stated: getPercentageOfElementInRectangle(f, r) is 0 when f and r do
\* not overlap and 100 when f lies entirely inside r, the elements of width or
\* height 0 included.
C19_InsideIsHundred ==
    call.op = "getPercentageOfElementInRectangle"
        => PercentageAsStated(call.element, call.rectangle, ret.value)

PercentageOfArea(element, rectangle, value) ==
    /\ (getArea(element) = 0 \/ ~Overlapping(element, rectangle)) => IsPercentage(value, 0)
    /\ (getArea(element) > 0 /\ Inside(element, rectangle)) => IsPercentage(value, 100)

\* C19 as amended: getPercentageOfElementInRectangle(f, r) is 0 when f and r
\* have no area in common, which is so for every f of width or height 0, and
\* 100 when f has an area and lies entirely inside r.
C19_InsideWithAreaIsHundred ==
    call.op = "getPercentageOfElementInRectangle"
        => PercentageOfArea(call.element, call.rectangle, ret.value)

\* C19 witness: the call for an element of height 0 strictly inside a rectangle
\* returned 0.
C19_Witness ==
    /\ call.op = "getPercentageOfElementInRectangle"
    /\ call.element.height = 0 /\ call.element.width > 0
    /\ Inside(call.element, call.rectangle)
    /\ call.rectangle.y < call.element.y
    /\ call.element.y < call.rectangle.y + call.rectangle.height
    /\ IsPercentage(ret.value, 0)

\* C20: an element more than twice as tall as the start element never changes
\* the row top: getRowTop of the elements with it is getRowTop of the elements
\* without it.
C20_TallElementIgnored == call.op = "getRowTopWithTall" => ret.value = call.first

\* C20 witness: the tall element overlaps the start element and starts above
\* the row top that getRowTop returned with it among the elements.
C20_Witness ==
    /\ call.op = "getRowTopWithTall"
    /\ isVerticalOverlap(call.startElement, call.tall)
    /\ call.tall.y < ret.value
    /\ Len(call.elements) > 1

(***************************************************************************)
(* Properties of getRightElement and findStartElements, checked under      *)
(* SpecStart.                                                              *)
(***************************************************************************)

\* The elements joined from a start element: the element, the element right of
\* it and the element right of that one, as far as there are any.
ChainOfThree(c1, c2, c3) == IF c3 = Undefined THEN <<c1, c2>> ELSE <<c1, c2, c3>>

ChainOfTwo(pageElements, c1, c2) ==
    IF c2 = Undefined THEN <<c1>>
    ELSE ChainOfThree(c1, c2, getRightElement(pageElements, c2))

ChainOf(pageElements, startElement) ==
    ChainOfTwo(pageElements, startElement, getRightElement(pageElements, startElement))

\* The texts of the first element of the chain, of the first two and of the
\* first three joined, without separators and in lower case.
Joined(chain) ==
    SubSeq([k \in 1..Len(chain) |->
               ToLowerCase(RemoveSeparators(Join(Texts(SubSeq(chain, 1, k)), "")))],
           1, Len(chain))

\* The number of edits from each text to the label.
Distances(texts) ==
    SubSeq([k \in 1..Len(texts) |-> Levenshtein(texts[k], "approval:")], 1, Len(texts))

\* The joined texts that are matches: as long as the label (9 characters) or one
\* character longer, and no more than 2 edits from it.
Matching(texts, distances) ==
    {k \in 1..Len(texts) : Len(texts[k]) \in {9, 10} /\ distances[k] <= 2}

\* The match k is of a lower tier than the match j, or of the same tier and of a
\* length no further from the length of the label.
Preferred(texts, distances, k, j) ==
    \/ distances[k] < distances[j]
    \/ /\ distances[k] = distances[j]
       /\ Abs(Len(texts[k]) - 9) <= Abs(Len(texts[j]) - 9)

\* bestMatch is a match of the lowest tier, and of the matches of that tier one
\* of a length closest to the length of the label; there is none without a match.
Chosen(bestMatch, chain, texts, distances, matching) ==
    IF matching = {} THEN bestMatch = Undefined
    ELSE /\ bestMatch # Undefined
         /\ \E k \in matching :
                /\ bestMatch.element = chain[k]
                /\ bestMatch.text = texts[k]
                /\ bestMatch.threshold = distances[k]
                /\ \A j \in matching : Preferred(texts, distances, k, j)

ChosenOfDistances(bestMatch, chain, texts, distances) ==
    Chosen(bestMatch, chain, texts, distances, Matching(texts, distances))

ChosenOfTexts(bestMatch, chain, texts) ==
    ChosenOfDistances(bestMatch, chain, texts, Distances(texts))

ChosenOfChain(bestMatch, chain) == ChosenOfTexts(bestMatch, chain, Joined(chain))

\* C23: of the texts joined from one start element, findStartElements takes a
\* match of the lowest tier (exact, then 1 edit, then 2 edits) and, of the
\* matches of that tier, one whose length is closest to that of "Approval:"; a
\* text more than 2 edits from "Approval:" is never taken.
C23_LowestTierClosestLength ==
    call.op = "findStartElements"
        => \A i \in 1..Len(call.candidates) :
               ChosenOfChain(ret.bestMatches[i], ChainOf(call.elements, call.candidates[i]))

\* The start element has a match of 2 edits and, joined later, a match of 1 edit.
TiersOfDistances(distances) ==
    \E k \in 1..Len(distances) : \E j \in (k + 1)..Len(distances) :
        distances[k] = 2 /\ distances[j] = 1

TiersOfChain(bestMatch, chain) ==
    /\ TiersOfDistances(Distances(Joined(chain)))
    /\ bestMatch # Undefined
    /\ bestMatch.threshold = 1
    /\ bestMatch.element = chain[Len(chain)]

\* C23 witness: findStartElements was called for a page where "Apxproval" (2
\* edits) is followed by ":" (together 1 edit), and took the second.
C23_Witness ==
    /\ call.op = "findStartElements"
    /\ \E i \in 1..Len(call.candidates) :
           TiersOfChain(ret.bestMatches[i], ChainOf(call.elements, call.candidates[i]))

\* No match taken has a text of more than n characters.
MatchesWithin(bestMatches, n) ==
    \A i \in 1..Len(bestMatches) :
        bestMatches[i] # Undefined => Len(bestMatches[i].text) <= n

\* C24 as stated: findStartElements stops joining as soon as the joined text is
\* longer than "Approval:" (9 characters): no text longer than the label is
\* taken as a match.
C24_NoLongerThanLabel == call.op = "findStartElements" => MatchesWithin(ret.bestMatches, 9)

\* The start elements returned are the elements of the matches taken.
StartElementsOfMatches(startElements, bestMatches) ==
    \A k \in 1..Len(startElements) :
        \E i \in 1..Len(bestMatches) :
            bestMatches[i] # Undefined /\ bestMatches[i].element = startElements[k]

\* C24 as amended: findStartElements stops joining as soon as the joined text
\* has 11 characters or more, two more than "Approval:": a text of 10 characters
\* is still tried, and no text of more than 10 characters is taken as a match
\* or gives a start element.
C24_NoLongerThanTenCharacters ==
    call.op = "findStartElements"
        => /\ MatchesWithin(ret.bestMatches, 10)
           /\ StartElementsOfMatches(ret.value, ret.bestMatches)

\* C24 witness: findStartElements took a text of 10 characters as a match, and
\* returned its element.
C24_Witness ==
    /\ call.op = "findStartElements"
    /\ Len(ret.value) = 1
    /\ \E i \in 1..Len(ret.bestMatches) :
           /\ ret.bestMatches[i] # Undefined
           /\ Len(ret.bestMatches[i].text) = 10
           /\ ret.bestMatches[i].element = ret.value[1]

\* The number of matches taken.
MatchCount(bestMatches) ==
    Cardinality({i \in 1..Len(bestMatches) : bestMatches[i] # Undefined})

\* The elements are in the order of their y.
InOrderOfY(startElements) ==
    \A k \in 1..(Len(startElements) - 1) : startElements[k].y <= startElements[k + 1].y

\* C25: findStartElements returns at most one start element for each element
\* that starts with "a" or "A" (one for each that has a match), and returns them
\* in the order of their y, whatever the order of the elements of the page.
C25_OnePerStartInOrderOfY ==
    call.op = "findStartElements"
        => /\ Len(ret.value) = MatchCount(ret.bestMatches)
           /\ Len(ret.value) <= Len(call.candidates)
           /\ StartElementsOfMatches(ret.value, ret.bestMatches)
           /\ InOrderOfY(ret.value)

\* The place of an element among the elements of the page.
PlaceOf(pageElements, element) == CHOOSE i \in 1..Len(pageElements) : pageElements[i] = element

\* C25 witness: findStartElements returned two start elements of two rows, the
\* upper one first, for a page that gives the lower one first.
C25_Witness ==
    /\ call.op = "findStartElements"
    /\ Len(ret.value) = 2
    /\ ret.value[1].y < ret.value[2].y
    /\ PlaceOf(call.elements, ret.value[1]) > PlaceOf(call.elements, ret.value[2])

\* C30: the start elements findStartElements returns are all different: no
\* element is the start element of two elements that start with "a".
C30_NoStartElementTwice ==
    call.op = "findStartElements"
        => \A i \in 1..Len(ret.value) : \A j \in (i + 1)..Len(ret.value) :
               ret.value[i] # ret.value[j]

\* r is more than half within the height of e, to the right of e, and the gap
\* between them is below 30.
Qualifies(e, r) ==
    /\ GreaterThan(getVerticalOverlapPercentage(e, r), 50)
    /\ r.x > e.x + e.width
    /\ r.x - (e.x + e.width) < 30

\* Four times the square of the distance from the middle of the right edge of e
\* to the middle of the left edge of r.
MiddleDistance(e, r) ==
    4 * (r.x - (e.x + e.width)) * (r.x - (e.x + e.width))
        + ((2 * r.y + r.height) - (2 * e.y + e.height))
              * ((2 * r.y + r.height) - (2 * e.y + e.height))

\* right is one of the qualifying elements at the least distance, Undefined when
\* none qualifies.
NearestOf(e, list, qualifying, right) ==
    IF qualifying = {} THEN right = Undefined
    ELSE \E i \in qualifying :
             /\ right = list[i]
             /\ \A j \in qualifying : MiddleDistance(e, list[i]) <= MiddleDistance(e, list[j])

NearestQualifying(e, list, right) ==
    NearestOf(e, list, {i \in 1..Len(list) : Qualifies(e, list[i])}, right)

\* C26: getRightElement(elements, e) returns an element r only if r overlaps e
\* vertically by more than 50 per cent, r.x is greater than e.x + e.width and
\* the gap r.x - (e.x + e.width) is below 30; it returns none exactly when no
\* element is so, and otherwise one of these at the least squared distance from
\* the middle of the right edge of e to the middle of its left edge.
C26_NearestRightElement ==
    call.op = "getRightElement" => NearestQualifying(call.element, call.elements, ret.value)

\* C26 witness: of two elements right of e on its row, after gaps below 30,
\* getRightElement returned the second of the list, which is nearer; a third
\* kind of element, after a gap of 30 or more, is not returned when alone.
C26_Witness ==
    /\ call.op = "getRightElement"
    /\ Len(call.elements) = 2
    /\ Qualifies(call.element, call.elements[1])
    /\ Qualifies(call.element, call.elements[2])
    /\ MiddleDistance(call.element, call.elements[2])
           < MiddleDistance(call.element, call.elements[1])
    /\ ret.value = call.elements[2]

====
